---- MODULE Spec2Model ----
(***************************************************************************)
(* Group-Work-Task-Manager: the workflow and authorization engine of       *)
(* core/views.py over the MongoDB documents of core/models.py.             *)
(*                                                                         *)
(* The database is six collections, each a function from document id to    *)
(* document.  Requests are served by concurrent handlers: a handler that   *)
(* reads, computes and then writes is split at its database operations,    *)
(* and the requests between two such operations are kept in the bag reqs.  *)
(* A handler path that returns before any write is one step.               *)
(***************************************************************************)
EXTENDS Integers, Sequences, FiniteSets, Bags, TLC

VARIABLES
    users,        \* collection 'users':  id -> [email, role]
    classes,      \* collection 'classes': id -> [name, lecturer, members]
    groups,       \* collection 'groups': id -> [name, class_obj, leader, members, whitelist_emails]
    tasks,        \* collection 'tasks': id -> [class_obj, lecturer, divisions]
    submissions,  \* collection 'submissions': id -> [task, group, member, text_answer, pdf_path, submitted_at, status]
    compiled,     \* collection 'compiled_submissions': id -> [group, task, compiled_pdf_path, compiled_at]
    indexes,      \* whether MongoDB._create_indexes has run on this database
    clock,        \* logical time: the next ObjectId / utcnow value
    workers,      \* how many handlers may be between two database operations
    reqs,         \* bag of handlers that are between two database operations
    resp,         \* the response the last step sent: [op, user, group, task, class, name, password, outcome]
    whitelisted,  \* history: group id -> emails ever saved in its whitelist
    accepted      \* history: <<group, user>> pairs told 'Successfully joined group'

db == <<users, classes, groups, tasks, submissions, compiled, indexes>>
hist == <<whitelisted, accepted>>
vars == <<users, classes, groups, tasks, submissions, compiled, indexes,
          clock, workers, reqs, resp, whitelisted, accepted>>

----------------------------------------------------------------------------
(* Bounds and universes *)

\* The pool of handlers is unbounded in the program; the model runs this many.
MaxWorkers == 2

UserId(n)  == <<"user", n>>
ClassId(n) == <<"class", n>>
GroupId(n) == <<"group", n>>
TaskId(n)  == <<"task", n>>
SubId(n)   == <<"submission", n>>
CompId(n)  == <<"compiled", n>>
NoId       == <<"none", 0>>

\* An empty string field / a None value.
Blank      == ""
NoArtifact == "no-pdf"
Artifacts  == {"a.pdf", "b.pdf"}

ROLE_LECTURER == "lecturer"
ROLE_LEADER   == "leader"
ROLE_MEMBER   == "member"

----------------------------------------------------------------------------
(* Lists *)

Contains(s, x) == \E i \in DOMAIN s : s[i] = x
SeqToSet(s)    == {s[i] : i \in DOMAIN s}
NoDuplicates(s) == \A i, j \in DOMAIN s : s[i] = s[j] => i = j

\* The first document of a query result: documents come back in insertion
\* order, which is the order of their ObjectIds.
First(ids) == IF ids = {} THEN NoId
              ELSE CHOOSE d \in ids : \A e \in ids : d[2] <= e[2]

----------------------------------------------------------------------------
(* Requests and responses *)

InFlight == BagCardinality(reqs)
CanStart == InFlight < workers

Park(r)       == reqs' = reqs (+) SetToBag({r})
Move(r, r2)   == reqs' = (reqs (-) SetToBag({r})) (+) SetToBag({r2})
Finish(r)     == reqs' = reqs (-) SetToBag({r})
Pending(op, pc) == {r \in BagToSet(reqs) : r.op = op /\ r.pc = pc}

NoResponse == [op |-> "none", user |-> NoId, group |-> NoId, task |-> NoId,
               class |-> NoId, name |-> Blank, password |-> Blank,
               outcome |-> "none"]

\* Outcomes: "ok", and for submit_task and compile_submission "Created"
\* ('Submission successful!', 'Submissions compiled successfully!') or
\* "Updated" ('... updated successfully!'); "NotFound", "Unauthorized",
\* "NotInGroup", "NotWhitelisted", "AlreadyMember", "DuplicateName",
\* "ValidationError" (the form is shown again), "DependencyFailure"
\* ('Failed to generate PDF'), "ServerError" (an exception nothing catches).
Succeeded(outcome) == outcome \in {"ok", "Created", "Updated"}

\* The step sends a response / sends none.  A response names the caller,
\* the documents the request addressed and, for the requests that carry one,
\* the class, group or account name posted; the response to join_class
\* names the password posted as well.
Reply(op, u, g, t, c, name, outcome) ==
    resp' = [op |-> op, user |-> u, group |-> g, task |-> t, class |-> c,
             name |-> name, password |-> Blank, outcome |-> outcome]
ReplyJoin(u, c, name, password, outcome) ==
    resp' = [op |-> "join_class", user |-> u, group |-> NoId, task |-> NoId,
             class |-> c, name |-> name, password |-> password,
             outcome |-> outcome]
Respond(op, u, g, t, outcome) == Reply(op, u, g, t, NoId, Blank, outcome)
Silent == resp' = NoResponse

----------------------------------------------------------------------------
(* Artifact generator (core/pdf_utils.py): render(text, header) -> path | None *)

\* What generate_member_pdf / generate_compiled_pdf_from_text may return.
PdfResults == Artifacts \cup {NoArtifact}

\* A view that never tests the generator's result.
AlwaysGenerated(path) == TRUE

\* 'if pdf_path:' - the generator reports failure by a falsy path.
PdfGenerated(path) == path # NoArtifact

\* f'/media/{relative_path}'
MediaUrl(path) == <<"/media/", path>>

----------------------------------------------------------------------------
(* SubmissionModel *)

SubsOf(t, m) == {s \in DOMAIN submissions :
                    submissions[s].task = t /\ submissions[s].member = m}

\* SubmissionModel.get_by_task_and_member: objects(task=, member=).first()
get_by_task_and_member(t, m) == First(SubsOf(t, m))

\* SubmissionModel.get_by_task_and_group: objects(task=, group=).all()
GroupSubs(t, g) == {s \in DOMAIN submissions :
                       submissions[s].task = t /\ submissions[s].group = g}

\* The unique index sub_task_member_unique rejects the insert (NotUniqueError)
\* when it exists and a document with the same (task, member) is stored.
SubmissionDuplicateKey(t, m) == indexes /\ SubsOf(t, m) # {}

\* SubmissionModel.create: a new document, submitted_at and status by default.
NewSubmission(t, g, m, text, url) ==
    [task |-> t, group |-> g, member |-> m, text_answer |-> text,
     pdf_path |-> url, submitted_at |-> clock, status |-> "submitted"]

\* A resubmission that inserts a second document instead of saving the first.
InsertedAgain(s, text, url) ==
    submissions @@ (SubId(clock) :> [submissions[s] EXCEPT !.text_answer = text,
                                                           !.pdf_path = url])

\* existing_sub.save(): $set of the changed fields on the document's id,
\* as an upsert.
UpdatedSubmission(s, text, url) ==
    IF s \in DOMAIN submissions
    THEN [submissions EXCEPT ![s].text_answer = text, ![s].pdf_path = url]
    ELSE submissions @@ (s :> [task |-> NoId, group |-> NoId, member |-> NoId,
                               text_answer |-> text, pdf_path |-> url,
                               submitted_at |-> 0, status |-> "submitted"])

\* A lookup that takes the first group of the user, of whatever class.
AnyGroupOfUser(u, t) ==
    First({g \in DOMAIN groups : Contains(groups[g].members, u)})

\* GroupModel.get_by_member(user_id), then the first group of the task's class.
UserGroup(u, t) ==
    First({g \in DOMAIN groups :
              /\ Contains(groups[g].members, u)
              /\ groups[g].class_obj = tasks[t].class_obj})

----------------------------------------------------------------------------
(* submit_task *)

\* Lines 809-835: the lookups and the form, up to the call of the generator.
SubmitRead(u, t, text) ==
    /\ CanStart
    /\ u \in DOMAIN users
    /\ UNCHANGED <<db, clock, workers, hist>>
    /\ IF t \notin DOMAIN tasks
       THEN Respond("submit", u, NoId, t, "NotFound") /\ UNCHANGED reqs
       ELSE IF UserGroup(u, t) = NoId
       THEN Respond("submit", u, NoId, t, "NotInGroup") /\ UNCHANGED reqs
       ELSE IF text = Blank
       THEN Respond("submit", u, UserGroup(u, t), t, "ValidationError")
            /\ UNCHANGED reqs
       ELSE /\ Park([op |-> "submit", pc |-> "write", user |-> u, task |-> t,
                     group |-> UserGroup(u, t), text |-> text,
                     existing |-> get_by_task_and_member(t, u)])
            /\ Silent

\* Lines 837-870: generate the PDF, then update the document read earlier
\* or insert a new one.
SubmitWrite(r) ==
    /\ r \in Pending("submit", "write")
    /\ Finish(r)
    /\ UNCHANGED <<users, classes, groups, tasks, compiled, indexes, workers, hist>>
    /\ \E path \in PdfResults :
        IF ~PdfGenerated(path)
        THEN /\ Respond("submit", r.user, r.group, r.task, "DependencyFailure")
             /\ UNCHANGED <<submissions, clock>>
        ELSE IF r.existing # NoId
        THEN /\ submissions' = UpdatedSubmission(r.existing, r.text, MediaUrl(path))
             /\ Respond("submit", r.user, r.group, r.task, "Updated")
             /\ UNCHANGED clock
        ELSE IF SubmissionDuplicateKey(r.task, r.user)
        THEN /\ Respond("submit", r.user, r.group, r.task, "ServerError")
             /\ UNCHANGED <<submissions, clock>>
        ELSE /\ submissions' = submissions @@
                    (SubId(clock) :> NewSubmission(r.task, r.group, r.user,
                                                   r.text, MediaUrl(path)))
             /\ clock' = clock + 1
             /\ Respond("submit", r.user, r.group, r.task, "Created")

----------------------------------------------------------------------------
(* CompiledSubmissionModel *)

CompiledOf(t, g) == {c \in DOMAIN compiled :
                        compiled[c].task = t /\ compiled[c].group = g}

\* CompiledSubmissionModel.get_by_task_and_group: objects(...).first()
get_compiled_by_task_and_group(t, g) == First(CompiledOf(t, g))

\* The unique index compiled_group_task_unique, when it exists.
CompiledDuplicateKey(t, g) == indexes /\ CompiledOf(t, g) # {}

\* CompiledSubmissionModel.create: compiled_at by default.
NewCompiled(g, t, url) ==
    [group |-> g, task |-> t, compiled_pdf_path |-> url, compiled_at |-> clock]

\* A second compile that inserts another document and keeps the first.
CompiledAgain(c, url) ==
    compiled @@ (CompId(clock) :> [compiled[c] EXCEPT !.compiled_pdf_path = url])

\* existing_compiled_sub.save(): $set compiled_pdf_path, as an upsert.
UpdatedCompiled(c, url) ==
    IF c \in DOMAIN compiled
    THEN [compiled EXCEPT ![c].compiled_pdf_path = url]
    ELSE compiled @@ (c :> [group |-> NoId, task |-> NoId,
                            compiled_pdf_path |-> url, compiled_at |-> 0])

----------------------------------------------------------------------------
(* Authorization predicates of the views *)

\* A check that the group exists and no more.
AnyoneLeads(u, g) == g \in DOMAIN groups

\* 'if not group or str(group.leader.id) != user_id' is the negation of this.
IsLeader(u, g) == g \in DOMAIN groups /\ groups[g].leader = u

----------------------------------------------------------------------------
(* compile_submission *)

\* A compile that asks for at least one submission of the task and group
\* before it goes on.
CompileNeedsSubmissions(u, g, t, text) ==
    /\ CanStart
    /\ u \in DOMAIN users
    /\ UNCHANGED <<db, clock, workers, hist>>
    /\ IF ~IsLeader(u, g)
       THEN Respond("compile", u, g, t, "Unauthorized") /\ UNCHANGED reqs
       ELSE IF \/ t \notin DOMAIN tasks
               \/ ~\E s \in DOMAIN submissions :
                      submissions[s].task = t /\ submissions[s].group = g
       THEN Respond("compile", u, g, t, "NotFound") /\ UNCHANGED reqs
       ELSE IF text = Blank
       THEN Respond("compile", u, g, t, "ValidationError") /\ UNCHANGED reqs
       ELSE \E path \in PdfResults :
               IF ~PdfGenerated(path)
               THEN Respond("compile", u, g, t, "DependencyFailure")
                    /\ UNCHANGED reqs
               ELSE /\ Park([op |-> "compile", pc |-> "lookup", user |-> u,
                             group |-> g, task |-> t, url |-> MediaUrl(path),
                             existing |-> NoId])
                    /\ Silent

\* Lines 747-779 and 798-800: authorization, the checks on the input and the
\* call of the generator.
CompileBegin(u, g, t, text) ==
    /\ CanStart
    /\ u \in DOMAIN users
    /\ UNCHANGED <<db, clock, workers, hist>>
    /\ IF ~IsLeader(u, g)
       THEN Respond("compile", u, g, t, "Unauthorized") /\ UNCHANGED reqs
       ELSE IF t \notin DOMAIN tasks
       THEN Respond("compile", u, g, t, "NotFound") /\ UNCHANGED reqs
       ELSE IF text = Blank
       THEN Respond("compile", u, g, t, "ValidationError") /\ UNCHANGED reqs
       ELSE \E path \in PdfResults :
               IF ~PdfGenerated(path)
               THEN Respond("compile", u, g, t, "DependencyFailure")
                    /\ UNCHANGED reqs
               ELSE /\ Park([op |-> "compile", pc |-> "lookup", user |-> u,
                             group |-> g, task |-> t, url |-> MediaUrl(path),
                             existing |-> NoId])
                    /\ Silent

\* A lookup that also marks the submissions of the group for the task as
\* compiled.
CompileLookupMarksSubmissions(r) ==
    /\ r \in Pending("compile", "lookup")
    /\ Move(r, [r EXCEPT !.pc = "write",
                         !.existing = get_compiled_by_task_and_group(r.task, r.group)])
    /\ Silent
    /\ submissions' = [s \in DOMAIN submissions |->
                          IF s \in GroupSubs(r.task, r.group)
                          THEN [submissions[s] EXCEPT !.status = "compiled"]
                          ELSE submissions[s]]
    /\ UNCHANGED <<users, classes, groups, tasks, compiled, indexes, clock,
                   workers, hist>>

\* Line 785: look for the compiled submission of this task and group.
CompileLookup(r) ==
    /\ r \in Pending("compile", "lookup")
    /\ Move(r, [r EXCEPT !.pc = "write",
                         !.existing = get_compiled_by_task_and_group(r.task, r.group)])
    /\ Silent
    /\ UNCHANGED <<db, clock, workers, hist>>

\* Lines 787-797: overwrite the document found, or insert a new one.
CompileWrite(r) ==
    /\ r \in Pending("compile", "write")
    /\ Finish(r)
    /\ UNCHANGED <<users, classes, groups, tasks, submissions, indexes, workers, hist>>
    /\ IF r.existing # NoId
       THEN /\ compiled' = UpdatedCompiled(r.existing, r.url)
            /\ Respond("compile", r.user, r.group, r.task, "Updated")
            /\ UNCHANGED clock
       ELSE IF CompiledDuplicateKey(r.task, r.group)
       THEN /\ Respond("compile", r.user, r.group, r.task, "ServerError")
            /\ UNCHANGED <<compiled, clock>>
       ELSE /\ compiled' = compiled @@
                   (CompId(clock) :> NewCompiled(r.group, r.task, r.url))
            /\ clock' = clock + 1
            /\ Respond("compile", r.user, r.group, r.task, "Created")

----------------------------------------------------------------------------
(* GroupModel *)

\* A form that offers every class.
AllClasses(u) == DOMAIN classes

\* GroupForm.__init__: ClassModel.objects(members=leader_id), the choices
\* of the class_obj field.
ClassChoices(u) == {c \in DOMAIN classes : Contains(classes[c].members, u)}

\* GroupModel.objects(name=name, class_obj=class_id)
GroupsNamed(c, name) == {g \in DOMAIN groups :
                            groups[g].name = name /\ groups[g].class_obj = c}

\* GroupForm.clean_name: the advisory pre-check.
NameTaken(c, name) == GroupsNamed(c, name) # {}

\* The unique index on (name, class_obj) that GroupModel.meta declares:
\* group.save() raises NotUniqueError.
GroupDuplicateKey(c, name) == GroupsNamed(c, name) # {}

\* A group created with an empty member list.
GroupWithoutMembers(c, leader, name) ==
    [name |-> name, class_obj |-> c, leader |-> leader,
     members |-> <<>>, whitelist_emails |-> <<>>]

\* GroupModel.create
NewGroup(c, leader, name) ==
    [name |-> name, class_obj |-> c, leader |-> leader,
     members |-> <<leader>>, whitelist_emails |-> <<>>]

\* A save that stores the new member alone.
MembersReplaced(members, u) == <<u>>

\* group.members.append(member_user)
add_member(members, u) == Append(members, u)

\* group.whitelist_emails.append(email)
add_whitelist_email(emails, email) == Append(emails, email)

\* group.whitelist_emails.remove(email): the first occurrence goes.
remove_whitelist_email(emails, email) ==
    LET i == CHOOSE k \in DOMAIN emails :
                 emails[k] = email /\ \A j \in 1..(k - 1) : emails[j] # email
    IN  SubSeq(emails, 1, i - 1) \o SubSeq(emails, i + 1, Len(emails))

EmailOf(u) == users[u].email

\* A view that lets any account in.
AnyoneWhitelisted(u, g) == TRUE

\* 'user_email not in group.whitelist_emails' is the negation of this.
IsWhitelisted(u, g) == Contains(groups[g].whitelist_emails, EmailOf(u))

\* A membership test that never finds the account.
NeverMember(u, g) == FALSE

\* 'user_id in [str(m.id) for m in group.members]', 'member_user not in
\* group.members'
IsMember(u, g) == Contains(groups[g].members, u)

----------------------------------------------------------------------------
(* create_group *)

\* Lines 546-551: GroupForm(request.POST, leader_id).is_valid().
CreateGroupValidate(u, c, name) ==
    /\ CanStart
    /\ u \in DOMAIN users
    /\ UNCHANGED <<db, clock, workers, hist>>
    /\ IF c \notin ClassChoices(u) \/ name = Blank
       THEN Reply("create_group", u, NoId, NoId, c, name, "ValidationError")
            /\ UNCHANGED reqs
       ELSE IF NameTaken(c, name)
       THEN Reply("create_group", u, NoId, NoId, c, name, "DuplicateName")
            /\ UNCHANGED reqs
       ELSE /\ Park([op |-> "create_group", pc |-> "insert", user |-> u,
                     class |-> c, name |-> name])
            /\ Silent

\* A create_group that makes the creator of the group a lecturer.
CreateGroupMakesLecturer(r) ==
    /\ r \in Pending("create_group", "insert")
    /\ Finish(r)
    /\ UNCHANGED <<classes, tasks, submissions, compiled, indexes,
                   workers, accepted>>
    /\ IF GroupDuplicateKey(r.class, r.name)
       THEN /\ Reply("create_group", r.user, NoId, NoId, r.class, r.name,
                       "ServerError")
            /\ UNCHANGED <<users, groups, clock, whitelisted>>
       ELSE /\ groups' = groups @@
                   (GroupId(clock) :> NewGroup(r.class, r.user, r.name))
            /\ users' = [users EXCEPT ![r.user].role = ROLE_LECTURER]
            /\ whitelisted' = whitelisted @@ (GroupId(clock) :> {})
            /\ clock' = clock + 1
            /\ Reply("create_group", r.user, GroupId(clock), NoId, r.class,
                     r.name, "ok")

\* Lines 553-556: GroupModel.create; nothing catches NotUniqueError.
CreateGroupInsert(r) ==
    /\ r \in Pending("create_group", "insert")
    /\ Finish(r)
    /\ UNCHANGED <<users, classes, tasks, submissions, compiled, indexes,
                   workers, accepted>>
    /\ IF GroupDuplicateKey(r.class, r.name)
       THEN /\ Reply("create_group", r.user, NoId, NoId, r.class, r.name,
                       "ServerError")
            /\ UNCHANGED <<groups, clock, whitelisted>>
       ELSE /\ groups' = groups @@
                   (GroupId(clock) :> NewGroup(r.class, r.user, r.name))
            /\ whitelisted' = whitelisted @@ (GroupId(clock) :> {})
            /\ clock' = clock + 1
            /\ Reply("create_group", r.user, GroupId(clock), NoId, r.class,
                     r.name, "ok")

----------------------------------------------------------------------------
(* accept_group_invitation *)

\* A view that tests membership before it tests the whitelist.
AcceptMemberFirst(u, g) ==
    /\ CanStart
    /\ u \in DOMAIN users
    /\ UNCHANGED <<db, clock, workers, hist>>
    /\ IF g \notin DOMAIN groups
       THEN Respond("accept", u, g, NoId, "NotFound") /\ UNCHANGED reqs
       ELSE IF IsMember(u, g)
       THEN Respond("accept", u, g, NoId, "AlreadyMember") /\ UNCHANGED reqs
       ELSE IF ~IsWhitelisted(u, g)
       THEN Respond("accept", u, g, NoId, "NotWhitelisted") /\ UNCHANGED reqs
       ELSE /\ Park([op |-> "accept", pc |-> "read", user |-> u, group |-> g,
                     members |-> <<>>])
            /\ Silent

\* Lines 595-610: the three checks on the group read by the view.
AcceptCheck(u, g) ==
    /\ CanStart
    /\ u \in DOMAIN users
    /\ UNCHANGED <<db, clock, workers, hist>>
    /\ IF g \notin DOMAIN groups
       THEN Respond("accept", u, g, NoId, "NotFound") /\ UNCHANGED reqs
       ELSE IF ~IsWhitelisted(u, g)
       THEN Respond("accept", u, g, NoId, "NotWhitelisted") /\ UNCHANGED reqs
       ELSE IF IsMember(u, g)
       THEN Respond("accept", u, g, NoId, "AlreadyMember") /\ UNCHANGED reqs
       ELSE /\ Park([op |-> "accept", pc |-> "read", user |-> u, group |-> g,
                     members |-> <<>>])
            /\ Silent

\* GroupModel.add_member, lines 154-156: read the group again; a user found
\* in its members is not added, and the view reports success all the same.
AddMemberRead(r) ==
    /\ r \in Pending("accept", "read")
    /\ UNCHANGED <<db, clock, workers, whitelisted>>
    /\ IF IsMember(r.user, r.group)
       THEN /\ Finish(r)
            /\ accepted' = accepted \cup {<<r.group, r.user>>}
            /\ Respond("accept", r.user, r.group, NoId, "ok")
       ELSE /\ Move(r, [r EXCEPT !.pc = "save",
                                 !.members = groups[r.group].members])
            /\ Silent /\ UNCHANGED accepted

\* An acceptance that uses the invitation up: the email of the new member
\* is taken off the whitelist.
AddMemberConsumesInvitation(r) ==
    /\ r \in Pending("accept", "save")
    /\ Finish(r)
    /\ groups' = [groups EXCEPT
                     ![r.group].members = add_member(r.members, r.user),
                     ![r.group].whitelist_emails =
                         SelectSeq(@, LAMBDA e : e # EmailOf(r.user))]
    /\ accepted' = accepted \cup {<<r.group, r.user>>}
    /\ Respond("accept", r.user, r.group, NoId, "ok")
    /\ UNCHANGED <<users, classes, tasks, submissions, compiled, indexes,
                   clock, workers, whitelisted>>

\* GroupModel.add_member, lines 157-158, and the view's lines 615-616:
\* group.save() sets the whole members list.
AddMemberSave(r) ==
    /\ r \in Pending("accept", "save")
    /\ Finish(r)
    /\ groups' = [groups EXCEPT ![r.group].members = add_member(r.members, r.user)]
    /\ accepted' = accepted \cup {<<r.group, r.user>>}
    /\ Respond("accept", r.user, r.group, NoId, "ok")
    /\ UNCHANGED <<users, classes, tasks, submissions, compiled, indexes,
                   clock, workers, whitelisted>>

----------------------------------------------------------------------------
(* add_whitelist / remove_whitelist *)

\* An add that saves without looking whether the email is already listed.
AddWhitelistAlways(u, g, email) ==
    /\ CanStart
    /\ u \in DOMAIN users
    /\ UNCHANGED <<db, clock, workers, hist>>
    /\ IF ~IsLeader(u, g)
       THEN Reply("add_whitelist", u, g, NoId, NoId, email, "Unauthorized")
            /\ UNCHANGED reqs
       ELSE IF email = Blank
       THEN Respond("add_whitelist", u, g, NoId, "ValidationError")
            /\ UNCHANGED reqs
       ELSE /\ Park([op |-> "add_whitelist", pc |-> "save", user |-> u,
                     group |-> g, email |-> email,
                     emails |-> groups[g].whitelist_emails])
            /\ Silent

\* View lines 674-685 and add_whitelist_email lines 164-165.  The success
\* message names the email (line 686, and line 702 for a removal).  The view's
\* read serves the leader check only, and no operation changes a group's
\* leader or deletes a group, so it is taken together with the model's read.
AddWhitelist(u, g, email) ==
    /\ CanStart
    /\ u \in DOMAIN users
    /\ UNCHANGED <<db, clock, workers, hist>>
    /\ IF ~IsLeader(u, g)
       THEN Reply("add_whitelist", u, g, NoId, NoId, email, "Unauthorized")
            /\ UNCHANGED reqs
       ELSE IF email = Blank
       THEN Respond("add_whitelist", u, g, NoId, "ValidationError")
            /\ UNCHANGED reqs
       ELSE IF Contains(groups[g].whitelist_emails, email)
       THEN Reply("add_whitelist", u, g, NoId, NoId, email, "ok")
            /\ UNCHANGED reqs
       ELSE /\ Park([op |-> "add_whitelist", pc |-> "save", user |-> u,
                     group |-> g, email |-> email,
                     emails |-> groups[g].whitelist_emails])
            /\ Silent

\* add_whitelist_email lines 166-167: group.save() sets the whole list.
AddWhitelistSave(r) ==
    /\ r \in Pending("add_whitelist", "save")
    /\ Finish(r)
    /\ groups' = [groups EXCEPT ![r.group].whitelist_emails =
                                    add_whitelist_email(r.emails, r.email)]
    /\ whitelisted' = [whitelisted EXCEPT ![r.group] = @ \cup {r.email}]
    /\ Reply("add_whitelist", r.user, r.group, NoId, NoId, r.email, "ok")
    /\ UNCHANGED <<users, classes, tasks, submissions, compiled, indexes,
                   clock, workers, accepted>>

\* View lines 694-701 and remove_whitelist_email lines 173-174.
RemoveWhitelist(u, g, email) ==
    /\ CanStart
    /\ u \in DOMAIN users
    /\ UNCHANGED <<db, clock, workers, hist>>
    /\ IF ~IsLeader(u, g)
       THEN Reply("remove_whitelist", u, g, NoId, NoId, email, "Unauthorized")
            /\ UNCHANGED reqs
       ELSE IF ~Contains(groups[g].whitelist_emails, email)
       THEN Reply("remove_whitelist", u, g, NoId, NoId, email, "ok")
            /\ UNCHANGED reqs
       ELSE /\ Park([op |-> "remove_whitelist", pc |-> "save", user |-> u,
                     group |-> g, email |-> email,
                     emails |-> groups[g].whitelist_emails])
            /\ Silent

\* remove_whitelist_email lines 175-176.
RemoveWhitelistSave(r) ==
    /\ r \in Pending("remove_whitelist", "save")
    /\ Finish(r)
    /\ groups' = [groups EXCEPT ![r.group].whitelist_emails =
                                    remove_whitelist_email(r.emails, r.email)]
    /\ Reply("remove_whitelist", r.user, r.group, NoId, NoId, r.email, "ok")
    /\ UNCHANGED <<users, classes, tasks, submissions, compiled, indexes,
                   clock, workers, hist>>

----------------------------------------------------------------------------
(* group_detail and poll_submissions *)

\* Lines 621-634 of group_detail: the page of a group, with the submissions
\* of its members for every task of its class, is shown to its members and
\* its leader only.
GroupDetail(u, g) ==
    /\ CanStart
    /\ u \in DOMAIN users
    /\ UNCHANGED <<db, clock, workers, reqs, hist>>
    /\ IF g \notin DOMAIN groups
       THEN Respond("group_detail", u, g, NoId, "NotFound")
       ELSE IF ~(IsMember(u, g) \/ groups[g].leader = u)
       THEN Respond("group_detail", u, g, NoId, "Unauthorized")
       ELSE Respond("group_detail", u, g, NoId, "ok")

\* Lines 1044-1054 of poll_submissions: the list the JSON response holds.
PollResult(t, g) ==
    {[id |-> s,
      member_email |-> IF submissions[s].member \in DOMAIN users
                       THEN EmailOf(submissions[s].member) ELSE "Unknown",
      status |-> submissions[s].status,
      submitted_at |-> submissions[s].submitted_at] : s \in GroupSubs(t, g)}

\* poll_submissions, lines 1040-1056: behind login_required the view reads
\* the submissions of (task, group) and answers with PollResult; the caller
\* is not looked at.
PollSubmissions(u, t, g) ==
    /\ CanStart
    /\ u \in DOMAIN users
    /\ UNCHANGED <<db, clock, workers, reqs, hist>>
    /\ Respond("poll_submissions", u, g, t, "ok")

----------------------------------------------------------------------------
(* TaskModel.add_division and divide_task *)

\* An assignment that appends without dropping the member's old division.
AppendDivision(divisions, m, part) ==
    Append(divisions, [member_id |-> m, part_description |-> part])

\* Lines 222-223: drop the member's division, append the new one.
add_division(divisions, m, part) ==
    Append(SelectSeq(divisions, LAMBDA d : d.member_id # m),
           [member_id |-> m, part_description |-> part])

\* request.POST.get(f'part_{id}')
PostGet(post, m) == IF m \in DOMAIN post THEN post[m] ELSE Blank

\* A loop that saves a division for every member, blank parts too.
PartsOfEveryMember(g, post) ==
    LET ms == SelectSeq(groups[g].members, LAMBDA m : m \in DOMAIN users)
    IN  [i \in DOMAIN ms |-> [member_id |-> ms[i],
                              part_description |-> PostGet(post, ms[i])]]

\* Lines 720-731: the members of the group that are accounts, in list
\* order, each with the part the form holds for it; blank parts are skipped.
PartsToSave(g, post) ==
    LET ms == SelectSeq(groups[g].members,
                        LAMBDA m : m \in DOMAIN users /\ PostGet(post, m) # Blank)
    IN  [i \in DOMAIN ms |-> [member_id |-> ms[i],
                              part_description |-> PostGet(post, ms[i])]]

\* Lines 708-731.
DivideBegin(u, g, t, post) ==
    /\ CanStart
    /\ u \in DOMAIN users
    /\ UNCHANGED <<db, clock, workers, hist>>
    /\ IF ~IsLeader(u, g)
       THEN Respond("divide", u, g, t, "Unauthorized") /\ UNCHANGED reqs
       ELSE IF t \notin DOMAIN tasks
       THEN Respond("divide", u, g, t, "NotFound") /\ UNCHANGED reqs
       ELSE IF PartsToSave(g, post) = <<>>
       THEN Respond("divide", u, g, t, "ok") /\ UNCHANGED reqs
       ELSE /\ Park([op |-> "divide", pc |-> "read", user |-> u, group |-> g,
                     task |-> t, post |-> post, todo |-> PartsToSave(g, post),
                     divisions |-> <<>>])
            /\ Silent

\* add_division lines 219-220: read the task.
AddDivisionRead(r) ==
    /\ r \in Pending("divide", "read")
    /\ r.task \in DOMAIN tasks
    /\ Move(r, [r EXCEPT !.pc = "save", !.divisions = tasks[r.task].divisions])
    /\ Silent
    /\ UNCHANGED <<db, clock, workers, hist>>

\* add_division lines 222-224: task.save() sets the whole divisions list;
\* then the next member of the loop, or lines 734-735.
AddDivisionSave(r) ==
    /\ r \in Pending("divide", "save")
    /\ tasks' = [tasks EXCEPT ![r.task].divisions =
                    add_division(r.divisions, Head(r.todo).member_id,
                                 Head(r.todo).part_description)]
    /\ UNCHANGED <<users, classes, groups, submissions, compiled, indexes,
                   clock, workers, hist>>
    /\ IF Tail(r.todo) = <<>>
       THEN Finish(r) /\ Respond("divide", r.user, r.group, r.task, "ok")
       ELSE /\ Move(r, [r EXCEPT !.pc = "read", !.todo = Tail(r.todo),
                                 !.divisions = <<>>])
            /\ Silent

----------------------------------------------------------------------------
(* ClassModel, create_class and join_class_view *)

\* ClassForm.password: min_length.
ClassPasswordMinLength == 4

\* bcrypt.hashpw and bcrypt.checkpw; the salt is left out.
HashPw(password) == <<"bcrypt", password>>
CheckPw(password, hash) == hash = HashPw(password)

\* ClassModel.objects(name=name)
ClassesNamed(name) == {c \in DOMAIN classes : classes[c].name = name}

\* ClassModel.get_by_name
get_by_name(name) == First(ClassesNamed(name))

\* The unique index of ClassModel.name: class_obj.save() raises
\* NotUniqueError.
ClassDuplicateKey(name) == ClassesNamed(name) # {}

\* ClassModel.create: the member list starts empty.
NewClass(name, password, lecturer) ==
    [name |-> name, password_hash |-> HashPw(password), lecturer |-> lecturer,
     members |-> <<>>]

\* lecturer_required: 'not request.user_obj or role != ROLE_LECTURER' is the
\* negation of this.
IsLecturer(u) == u \in DOMAIN users /\ users[u].role = ROLE_LECTURER

\* create_class, lines 162-178, with lecturer_required: one insert, and
\* nothing catches NotUniqueError.
CreateClass(u, name, password) ==
    /\ CanStart
    /\ UNCHANGED <<users, groups, tasks, submissions, compiled, indexes,
                   workers, reqs, hist>>
    /\ IF ~IsLecturer(u)
       THEN /\ Reply("create_class", u, NoId, NoId, NoId, name, "Unauthorized")
            /\ UNCHANGED <<classes, clock>>
       ELSE IF name = Blank \/ Len(password) < ClassPasswordMinLength
       THEN /\ Reply("create_class", u, NoId, NoId, NoId, name,
                     "ValidationError")
            /\ UNCHANGED <<classes, clock>>
       ELSE IF ClassDuplicateKey(name)
       THEN /\ Reply("create_class", u, NoId, NoId, NoId, name, "ServerError")
            /\ UNCHANGED <<classes, clock>>
       ELSE /\ classes' = classes @@
                   (ClassId(clock) :> NewClass(name, password, u))
            /\ clock' = clock + 1
            /\ Reply("create_class", u, NoId, NoId, ClassId(clock), name, "ok")

\* A password test that accepts every password.
AnyPassword(name, password) == TRUE

\* ClassModel.verify_password
verify_password(name, password) ==
    /\ get_by_name(name) # NoId
    /\ CheckPw(password, classes[get_by_name(name)].password_hash)

\* class_obj.members.append(user)
add_leader(members, u) == Append(members, u)

\* join_class_view lines 569-584 and add_leader lines 93-97.  A class keeps
\* its name and password and is never deleted, so the view's reads are taken
\* together with the read of add_leader.
JoinClass(u, name, password) ==
    /\ CanStart
    /\ u \in DOMAIN users
    /\ UNCHANGED <<db, clock, workers, hist>>
    /\ IF name = Blank \/ password = Blank
       THEN ReplyJoin(u, NoId, name, password, "ValidationError")
            /\ UNCHANGED reqs
       ELSE IF get_by_name(name) = NoId
       THEN ReplyJoin(u, NoId, name, password, "NotFound")
            /\ UNCHANGED reqs
       ELSE IF ~verify_password(name, password)
       THEN ReplyJoin(u, get_by_name(name), name, password, "InvalidCredential")
            /\ UNCHANGED reqs
       ELSE IF Contains(classes[get_by_name(name)].members, u)
       THEN ReplyJoin(u, get_by_name(name), name, password, "ok")
            /\ UNCHANGED reqs
       ELSE /\ Park([op |-> "join_class", pc |-> "save", user |-> u,
                     class |-> get_by_name(name), name |-> name,
                     password |-> password,
                     members |-> classes[get_by_name(name)].members])
            /\ Silent

\* A join that makes the account that joins the owner of the class.
JoinClassTakesOwnership(r) ==
    /\ r \in Pending("join_class", "save")
    /\ Finish(r)
    /\ classes' = [classes EXCEPT ![r.class].members = add_leader(r.members, r.user),
                                  ![r.class].lecturer = r.user]
    /\ ReplyJoin(r.user, r.class, r.name, r.password, "ok")
    /\ UNCHANGED <<users, groups, tasks, submissions, compiled, indexes,
                   clock, workers, hist>>

\* add_leader lines 98-100 and the view's lines 585-586: class_obj.save()
\* sets the whole members list.
JoinClassSave(r) ==
    /\ r \in Pending("join_class", "save")
    /\ Finish(r)
    /\ classes' = [classes EXCEPT ![r.class].members = add_leader(r.members, r.user)]
    /\ ReplyJoin(r.user, r.class, r.name, r.password, "ok")
    /\ UNCHANGED <<users, groups, tasks, submissions, compiled, indexes,
                   clock, workers, hist>>

----------------------------------------------------------------------------
(* UserModel and register_view *)

\* RegisterForm.password: min_length.
RegisterPasswordMinLength == 6

\* The class attributes of UserModel that name a role.
UserModelRoles ==
    [ROLE_LECTURER |-> ROLE_LECTURER, ROLE_LEADER |-> ROLE_LEADER,
     ROLE_MEMBER |-> ROLE_MEMBER]

\* UserModel.objects(email=email)
UsersWithEmail(email) == {u \in DOMAIN users : users[u].email = email}

\* UserModel.get_by_email
get_by_email(email) == First(UsersWithEmail(email))

\* The unique index of UserModel.email: user.save() raises NotUniqueError.
UserDuplicateKey(email) == UsersWithEmail(email) # {}

\* UserModel.create
NewUser(email, role) == [email |-> email, role |-> role]

\* register_view lines 63-73: the session test, RegisterForm and the email
\* pre-check.  The caller u is NoId when the session holds no user_id.
RegisterCheck(u, email, password, confirm) ==
    /\ CanStart
    /\ UNCHANGED <<db, clock, workers, hist>>
    /\ IF u # NoId
       THEN Reply("register", u, NoId, NoId, NoId, email, "Redirected")
            /\ UNCHANGED reqs
       ELSE IF \/ email = Blank
               \/ Len(password) < RegisterPasswordMinLength
               \/ password # confirm
       THEN Reply("register", u, NoId, NoId, NoId, email, "ValidationError")
            /\ UNCHANGED reqs
       ELSE IF get_by_email(email) # NoId
       THEN Reply("register", u, NoId, NoId, NoId, email, "DuplicateName")
            /\ UNCHANGED reqs
       ELSE /\ Park([op |-> "register", pc |-> "create", email |-> email])
            /\ Silent

\* register_view lines 75-83: the argument UserModel.ROLE_STUDENT is
\* evaluated before UserModel.create is called and raises AttributeError
\* when UserModel has no such attribute; nothing catches it, nor the
\* NotUniqueError of user.save().
RegisterCreate(r) ==
    /\ r \in Pending("register", "create")
    /\ Finish(r)
    /\ UNCHANGED <<classes, groups, tasks, submissions, compiled, indexes,
                   workers, hist>>
    /\ IF "ROLE_STUDENT" \notin DOMAIN UserModelRoles
       THEN /\ Reply("register", NoId, NoId, NoId, NoId, r.email, "ServerError")
            /\ UNCHANGED <<users, clock>>
       ELSE IF UserDuplicateKey(r.email)
       THEN /\ Reply("register", NoId, NoId, NoId, NoId, r.email, "ServerError")
            /\ UNCHANGED <<users, clock>>
       ELSE /\ users' = users @@
                   (UserId(clock) :> NewUser(r.email, UserModelRoles["ROLE_STUDENT"]))
            /\ clock' = clock + 1
            /\ Reply("register", UserId(clock), NoId, NoId, NoId, r.email, "ok")

----------------------------------------------------------------------------
(* TaskModel, create_task, edit_task and delete_task *)

\* Python's None: a field that is not set, an upload that was not sent.
None == "<None>"

\* The bound on the tasks create_task adds to a class.
MaxTasks == 2

\* TaskForm.task_type: the two choices of the ChoiceField.
TaskTypes == {"text", "file"}

\* TaskForm.is_valid(): the title is required and the type is one of the
\* choices; description and task_file are not required.
TaskFormValid(title, task_type) == title # Blank /\ task_type \in TaskTypes

\* os.path.join('tasks', file_name)
UploadPath(file_name) == "tasks/" \o file_name

\* TaskModel.create.  The due date and the creation time bear on no
\* property here and are left out.
TaskModelCreate(c, lecturer, title, description, file_path) ==
    [class_obj |-> c, lecturer |-> lecturer, title |-> title,
     description |-> description, file_path |-> file_path,
     divisions |-> <<>>]

\* 'not class_obj or str(class_obj.lecturer.id) != user_id' is the negation
\* of this.
OwnsClass(u, c) == c \in DOMAIN classes /\ classes[c].lecturer = u

\* 'not task or str(task.lecturer.id) != user_id' is the negation of this.
OwnsTask(u, t) == t \in DOMAIN tasks /\ tasks[t].lecturer = u

\* create_task, lines 204-243, with lecturer_required: one insert.  The
\* upload is an account of the file sent, None when the form carries none.
CreateTask(u, c, title, task_type, description, task_file) ==
    /\ CanStart
    /\ Cardinality(DOMAIN tasks) < MaxTasks
    /\ UNCHANGED <<users, classes, groups, submissions, compiled, indexes,
                   workers, reqs, hist>>
    /\ IF ~IsLecturer(u) \/ ~OwnsClass(u, c)
       THEN /\ Reply("create_task", u, NoId, NoId, c, title, "Unauthorized")
            /\ UNCHANGED <<tasks, clock>>
       ELSE IF ~TaskFormValid(title, task_type)
       THEN /\ Reply("create_task", u, NoId, NoId, c, title, "ValidationError")
            /\ UNCHANGED <<tasks, clock>>
       ELSE LET file_path == IF task_type = "file" /\ task_file # None
                             THEN UploadPath(task_file) ELSE None
            IN  /\ tasks' = tasks @@
                       (TaskId(clock) :>
                           TaskModelCreate(c, u, title,
                               IF task_type = "text" THEN description ELSE None,
                               IF task_type = "file" THEN file_path ELSE None))
                /\ clock' = clock + 1
                /\ Reply("create_task", u, NoId, TaskId(clock), c, title, "ok")

\* edit_task, lines 322-337: the task is read and the form validated.
EditTaskRead(u, t, title, task_type, description, task_file) ==
    /\ CanStart
    /\ UNCHANGED <<db, clock, workers, hist>>
    /\ IF ~IsLecturer(u) \/ ~OwnsTask(u, t)
       THEN /\ Reply("edit_task", u, NoId, t, NoId, title, "Unauthorized")
            /\ UNCHANGED reqs
       ELSE IF ~TaskFormValid(title, task_type)
       THEN /\ Reply("edit_task", u, NoId, t, NoId, title, "ValidationError")
            /\ UNCHANGED reqs
       ELSE /\ Park([op |-> "edit_task", pc |-> "save", user |-> u, task |-> t,
                     title |-> title, task_type |-> task_type,
                     description |-> description, task_file |-> task_file,
                     read |-> tasks[t]])
            /\ Silent

\* The document task.save() leaves: the title always, the two payload
\* fields when lines 344-357 assign them; a file task posted without an
\* upload takes neither branch.
EditedTask(task, title, task_type, description, task_file) ==
    IF task_type = "file" /\ task_file # None
    THEN [task EXCEPT !.title = title, !.file_path = UploadPath(task_file),
                      !.description = None]
    ELSE IF task_type = "text"
    THEN [task EXCEPT !.title = title, !.description = description,
                      !.file_path = None]
    ELSE [task EXCEPT !.title = title]

\* edit_task, lines 340-361: task.save() sets the fields whose assigned
\* value differs from the value read, on the document's id and as an upsert;
\* with no such field it writes nothing.
EditTaskSave(r) ==
    /\ r \in Pending("edit_task", "save")
    /\ Finish(r)
    /\ LET edited == EditedTask(r.read, r.title, r.task_type, r.description,
                                r.task_file)
           changed == {f \in {"title", "description", "file_path"} :
                          edited[f] # r.read[f]}
           stored == IF r.task \in DOMAIN tasks THEN tasks[r.task]
                     ELSE [class_obj |-> NoId, lecturer |-> NoId,
                           title |-> Blank, description |-> None,
                           file_path |-> None, divisions |-> <<>>]
           saved == [f \in DOMAIN stored |->
                        IF f \in changed THEN edited[f] ELSE stored[f]]
       IN  tasks' = IF changed = {} THEN tasks
                    ELSE [t \in DOMAIN tasks \cup {r.task} |->
                             IF t = r.task THEN saved ELSE tasks[t]]
    /\ Reply("edit_task", r.user, NoId, r.task, NoId, r.title, "ok")
    /\ UNCHANGED <<users, classes, groups, submissions, compiled, indexes,
                   clock, workers, hist>>

\* A cascade that takes every document of the collection with the task.
WithoutAnyTask(docs, t) == << >>

\* reverse_delete_rule=CASCADE on SubmissionModel.task and on
\* CompiledSubmissionModel.task: the documents that go with a task.
WithoutTask(docs, t) == [d \in {x \in DOMAIN docs : docs[x].task # t} |-> docs[d]]

\* A delete_task that looks neither at the caller's role nor at the owner of
\* the task.
DeleteTaskOfAnyone(u, t) ==
    /\ CanStart
    /\ UNCHANGED <<users, classes, groups, indexes, clock, workers, reqs, hist>>
    /\ IF t \notin DOMAIN tasks
       THEN /\ Respond("delete_task", u, NoId, t, "Unauthorized")
            /\ UNCHANGED <<tasks, submissions, compiled>>
       ELSE /\ tasks' = [x \in DOMAIN tasks \ {t} |-> tasks[x]]
            /\ submissions' = WithoutTask(submissions, t)
            /\ compiled' = WithoutTask(compiled, t)
            /\ Respond("delete_task", u, NoId, t, "ok")

\* delete_task, lines 383-396, with lecturer_required: task.delete() removes
\* the task and cascades.  The read serves the ownership check only and no
\* operation changes a task's lecturer, so it is taken together with the
\* delete.
DeleteTask(u, t) ==
    /\ CanStart
    /\ UNCHANGED <<users, classes, groups, indexes, clock, workers, reqs, hist>>
    /\ IF ~IsLecturer(u) \/ ~OwnsTask(u, t)
       THEN /\ Respond("delete_task", u, NoId, t, "Unauthorized")
            /\ UNCHANGED <<tasks, submissions, compiled>>
       ELSE /\ tasks' = [x \in DOMAIN tasks \ {t} |-> tasks[x]]
            /\ submissions' = WithoutTask(submissions, t)
            /\ compiled' = WithoutTask(compiled, t)
            /\ Respond("delete_task", u, NoId, t, "ok")

----------------------------------------------------------------------------
(* Fixtures: states the seed script and earlier requests leave behind *)

Emails == <<"s1@test.com", "s2@test.com", "s3@test.com">>
Account(n) == [email |-> Emails[n], role |-> ROLE_MEMBER]

UsersFixture ==
    (UserId(0) :> [email |-> "lecturer@test.com", role |-> ROLE_LECTURER])
    @@ [u \in {UserId(1), UserId(2), UserId(3)} |-> Account(u[2])]

ClassesFixture ==
    (ClassId(1) :> [NewClass("AI101", "ai101pass", UserId(0))
                        EXCEPT !.members = <<UserId(1), UserId(2)>>])
    @@ (ClassId(2) :> [NewClass("Web", "webdevpass", UserId(0))
                           EXCEPT !.members = <<UserId(3), UserId(2)>>])

\* Group 1 of class 1, led by user 1, with user 2 invited and joined.
JoinedGroup ==
    [name |-> "Alpha", class_obj |-> ClassId(1), leader |-> UserId(1),
     members |-> <<UserId(1), UserId(2)>>, whitelist_emails |-> <<Emails[2]>>]

\* Group 1 as create_group leaves it.
FreshGroup == NewGroup(ClassId(1), UserId(1), "Alpha")

\* Group 2 of class 2, led by user 3.
OtherGroup == NewGroup(ClassId(2), UserId(3), "Alpha")

\* A text task of the given class as the seed script's create_tasks leaves it.
NewTask(c) == TaskModelCreate(c, UserId(0), "Report", "Write a report", None)

Texts == {"answer v1", "answer v2"}

\* The state a database is in once users, classes, the given groups and
\* tasks have been created and no request is being served.
Quiet(gs, ts, w) ==
    /\ users = UsersFixture
    /\ classes = ClassesFixture
    /\ groups = gs
    /\ tasks = ts
    /\ submissions = << >>
    /\ compiled = << >>
    /\ clock = 10
    /\ workers = w
    /\ reqs = EmptyBag
    /\ resp = NoResponse
    /\ whitelisted = [g \in DOMAIN gs |-> SeqToSet(gs[g].whitelist_emails)]
    /\ accepted = {}

----------------------------------------------------------------------------
(* Spec: submit_task and compile_submission, one request at a time *)

Init ==
    /\ Quiet(GroupId(1) :> JoinedGroup, TaskId(1) :> NewTask(ClassId(1)), 1)
    /\ indexes \in BOOLEAN

Next ==
    \/ \E u \in {UserId(2), UserId(3)}, t \in {TaskId(1), TaskId(0)},
          text \in Texts \cup {Blank} : SubmitRead(u, t, text)
    \/ \E r \in BagToSet(reqs) : SubmitWrite(r)
    \/ \E u \in {UserId(1), UserId(2)}, g \in {GroupId(1), GroupId(0)},
          t \in {TaskId(1), TaskId(0)}, text \in {"merged", Blank} :
          CompileBegin(u, g, t, text)
    \/ \E r \in BagToSet(reqs) : CompileLookup(r)
    \/ \E r \in BagToSet(reqs) : CompileWrite(r)

Spec == Init /\ [][Next]_vars

----------------------------------------------------------------------------
(* SpecSubmit: concurrent submit_task requests *)

InitSubmit ==
    /\ Quiet(GroupId(1) :> JoinedGroup, TaskId(1) :> NewTask(ClassId(1)),
             MaxWorkers)
    /\ indexes \in BOOLEAN

NextSubmit ==
    \/ \E u \in {UserId(1), UserId(2)}, text \in Texts :
          SubmitRead(u, TaskId(1), text)
    \/ \E r \in BagToSet(reqs) : SubmitWrite(r)

SpecSubmit == InitSubmit /\ [][NextSubmit]_vars

----------------------------------------------------------------------------
(* SpecCompile: concurrent compile_submission requests of the leader *)

InitCompile ==
    /\ Quiet(GroupId(1) :> JoinedGroup, TaskId(1) :> NewTask(ClassId(1)),
             MaxWorkers)
    /\ indexes \in BOOLEAN

NextCompile ==
    \/ \E u \in {UserId(1), UserId(2)} :
          CompileBegin(u, GroupId(1), TaskId(1), "merged")
    \/ \E r \in BagToSet(reqs) : CompileLookup(r)
    \/ \E r \in BagToSet(reqs) : CompileWrite(r)

SpecCompile == InitCompile /\ [][NextCompile]_vars

----------------------------------------------------------------------------
(* SpecAccounts: concurrent register_view and create_class requests *)

InitAccounts ==
    /\ Quiet(<< >>, << >>, MaxWorkers)
    /\ indexes = TRUE

NextAccounts ==
    \/ \E u \in {NoId, UserId(1)},
          email \in {Emails[1], "s4@test.com", "s5@test.com", Blank},
          confirm \in {"password123", "password124"} :
          RegisterCheck(u, email, "password123", confirm)
    \/ \E r \in BagToSet(reqs) : RegisterCreate(r)
    \/ \E u \in {UserId(0), UserId(1)},
          name \in {"AI101", "Databases", "Physics", Blank},
          password \in {"dbpass", "db"} : CreateClass(u, name, password)

SpecAccounts == InitAccounts /\ [][NextAccounts]_vars

----------------------------------------------------------------------------
(* SpecJoin: create_class and join_class_view, one request at a time *)

InitJoin ==
    /\ Quiet(<< >>, << >>, 1)
    /\ indexes = TRUE

NextJoin ==
    \/ \E name \in {"AI101", "Databases"} :
          CreateClass(UserId(0), name, "dbpass")
    \/ \E u \in {UserId(2), UserId(3)}, name \in {"AI101", "Databases", "Physics"},
          password \in {"ai101pass", "dbpass"} : JoinClass(u, name, password)
    \/ \E r \in BagToSet(reqs) : JoinClassSave(r)

SpecJoin == InitJoin /\ [][NextJoin]_vars

----------------------------------------------------------------------------
(* SpecGroup: concurrent create_group requests *)

InitGroup ==
    /\ Quiet(<< >>, << >>, MaxWorkers)
    /\ indexes = TRUE

NextGroup ==
    \/ \E u \in {UserId(1), UserId(2), UserId(3)},
          c \in {ClassId(1), ClassId(2)},
          name \in {"Alpha", Blank} : CreateGroupValidate(u, c, name)
    \/ \E r \in BagToSet(reqs) : CreateGroupInsert(r)

SpecGroup == InitGroup /\ [][NextGroup]_vars

----------------------------------------------------------------------------
(* SpecInvite: the whitelist and concurrent accept_group_invitation *)

InitInvite ==
    /\ Quiet(GroupId(1) :> FreshGroup, << >>, MaxWorkers)
    /\ indexes = TRUE

NextInvite ==
    \/ \E e \in {Emails[2], Emails[3]} : AddWhitelist(UserId(1), GroupId(1), e)
    \/ \E r \in BagToSet(reqs) : AddWhitelistSave(r)
    \/ \E e \in {Emails[2], Emails[3]} : RemoveWhitelist(UserId(1), GroupId(1), e)
    \/ \E r \in BagToSet(reqs) : RemoveWhitelistSave(r)
    \/ \E u \in {UserId(2), UserId(3)}, g \in {GroupId(1), GroupId(0)} :
          AcceptCheck(u, g)
    \/ \E r \in BagToSet(reqs) : AddMemberRead(r)
    \/ \E r \in BagToSet(reqs) : AddMemberSave(r)

SpecInvite == InitInvite /\ [][NextInvite]_vars

\* The same requests, one at a time.
InitInviteSerial ==
    /\ Quiet(GroupId(1) :> FreshGroup, << >>, 1)
    /\ indexes = TRUE

SpecInviteSerial == InitInviteSerial /\ [][NextInvite]_vars

----------------------------------------------------------------------------
(* SpecLeader: the leader-only operations, called by leaders and by others,
   one request at a time *)

TwoGroups == (GroupId(1) :> JoinedGroup) @@ (GroupId(2) :> OtherGroup)
TwoTasks  == (TaskId(1) :> NewTask(ClassId(1))) @@ (TaskId(2) :> NewTask(ClassId(2)))

InitLeader ==
    /\ Quiet(TwoGroups, TwoTasks, 1)
    /\ indexes = TRUE

NextLeader ==
    \/ \E u \in {UserId(1), UserId(2)}, g \in {GroupId(1), GroupId(0)},
          t \in {TaskId(1), TaskId(0)} :
          \/ \E post \in {UserId(2) :> "part A",
                           (UserId(1) :> "part B") @@ (UserId(2) :> Blank)} :
                DivideBegin(u, g, t, post)
          \/ CompileBegin(u, g, t, "merged")
          \/ AddWhitelist(u, g, Emails[3])
    \/ \E r \in BagToSet(reqs) : AddDivisionRead(r)
    \/ \E r \in BagToSet(reqs) : AddDivisionSave(r)
    \/ \E r \in BagToSet(reqs) : CompileLookup(r)
    \/ \E r \in BagToSet(reqs) : CompileWrite(r)
    \/ \E r \in BagToSet(reqs) : AddWhitelistSave(r)

SpecLeader == InitLeader /\ [][NextLeader]_vars

----------------------------------------------------------------------------
(* SpecEnrolled: submit_task by members of groups of two classes, one
   request at a time *)

InitEnrolled ==
    /\ Quiet(TwoGroups, TwoTasks, 1)
    /\ indexes = TRUE

NextEnrolled ==
    \/ \E u \in {UserId(0), UserId(2), UserId(3)},
          t \in {TaskId(1), TaskId(2), TaskId(0)} :
          SubmitRead(u, t, "answer v1")
    \/ \E r \in BagToSet(reqs) : SubmitWrite(r)

SpecEnrolled == InitEnrolled /\ [][NextEnrolled]_vars

----------------------------------------------------------------------------
(* SpecRead: submit_task and the reads of a group's submissions, one request
   at a time *)

InitRead ==
    /\ Quiet(TwoGroups, TwoTasks, 1)
    /\ indexes = TRUE

NextRead ==
    \/ \E u \in {UserId(2), UserId(3)}, t \in {TaskId(1), TaskId(2)} :
          SubmitRead(u, t, "answer v1")
    \/ \E r \in BagToSet(reqs) : SubmitWrite(r)
    \/ \E u \in DOMAIN UsersFixture, g \in {GroupId(1), GroupId(2), GroupId(0)} :
          GroupDetail(u, g)
    \/ \E u \in DOMAIN UsersFixture, t \in {TaskId(1), TaskId(2)},
          g \in {GroupId(1), GroupId(2)} : PollSubmissions(u, t, g)

SpecRead == InitRead /\ [][NextRead]_vars

----------------------------------------------------------------------------
(* SpecTask: create_task and edit_task of lecturers and others, one request
   at a time *)

InitTask ==
    /\ Quiet(GroupId(1) :> JoinedGroup, TaskId(1) :> NewTask(ClassId(1)), 1)
    /\ indexes = TRUE

TaskPosts ==
    {<<"Essay", "text", "Write an essay", None>>,
     <<"Essay", "text", Blank, None>>,
     <<"Lab", "file", Blank, "lab.pdf">>,
     <<"Lab", "file", Blank, None>>,
     <<Blank, "text", "Write an essay", None>>}

NextTask ==
    \/ \E u \in {UserId(0), UserId(1)}, c \in {ClassId(1), ClassId(0)},
          p \in TaskPosts : CreateTask(u, c, p[1], p[2], p[3], p[4])
    \/ \E u \in {UserId(0), UserId(1)}, t \in {TaskId(1), TaskId(10), TaskId(0)},
          p \in TaskPosts : EditTaskRead(u, t, p[1], p[2], p[3], p[4])
    \/ \E r \in BagToSet(reqs) : EditTaskSave(r)

SpecTask == InitTask /\ [][NextTask]_vars

----------------------------------------------------------------------------
(* SpecRoles: the requests that deal with accounts, classes and groups, one
   at a time, on a database in which the seed script made user 1 a leader *)

SeededUsers == [UsersFixture EXCEPT ![UserId(1)].role = ROLE_LEADER]

InitRoles ==
    /\ users = SeededUsers
    /\ classes = ClassesFixture
    /\ groups = << >>
    /\ tasks = << >>
    /\ submissions = << >>
    /\ compiled = << >>
    /\ indexes = TRUE
    /\ clock = 10
    /\ workers = 1
    /\ reqs = EmptyBag
    /\ resp = NoResponse
    /\ whitelisted = << >>
    /\ accepted = {}

NextRoles ==
    \/ RegisterCheck(NoId, "s4@test.com", "password123", "password123")
    \/ \E r \in BagToSet(reqs) : RegisterCreate(r)
    \/ \E u \in {UserId(0), UserId(1)} : CreateClass(u, "Databases", "dbpass")
    \/ JoinClass(UserId(3), "AI101", "ai101pass")
    \/ \E r \in BagToSet(reqs) : JoinClassSave(r)
    \/ \E u \in {UserId(1), UserId(2)} :
          CreateGroupValidate(u, ClassId(1), "Alpha")
    \/ \E r \in BagToSet(reqs) : CreateGroupInsert(r)
    \/ \E g \in DOMAIN groups :
          AddWhitelist(groups[g].leader, g, Emails[3])
    \/ \E r \in BagToSet(reqs) : AddWhitelistSave(r)
    \/ \E g \in DOMAIN groups : AcceptCheck(UserId(3), g)
    \/ \E r \in BagToSet(reqs) : AddMemberRead(r)
    \/ \E r \in BagToSet(reqs) : AddMemberSave(r)

SpecRoles == InitRoles /\ [][NextRoles]_vars

----------------------------------------------------------------------------
(* SpecLifecycle: submit_task of members of two groups and delete_task of
   the tasks of their classes, one request at a time *)

InitLifecycle ==
    /\ Quiet(TwoGroups, TwoTasks, 1)
    /\ indexes = TRUE

NextLifecycle ==
    \/ \E u \in {UserId(2), UserId(3)}, t \in {TaskId(1), TaskId(2)},
          text \in Texts : SubmitRead(u, t, text)
    \/ \E r \in BagToSet(reqs) : SubmitWrite(r)
    \/ \E u \in {UserId(0), UserId(1)}, t \in {TaskId(1), TaskId(2)} :
          DeleteTask(u, t)

SpecLifecycle == InitLifecycle /\ [][NextLifecycle]_vars

----------------------------------------------------------------------------
(* SpecCompiledLifecycle: compile_submission and submit_task in group 1 and
   delete_task of two tasks, one request at a time *)

InitCompiledLifecycle ==
    /\ Quiet(TwoGroups, TwoTasks, 1)
    /\ indexes = TRUE

NextCompiledLifecycle ==
    \/ \E u \in {UserId(1), UserId(2)}, t \in {TaskId(1), TaskId(2)} :
          CompileBegin(u, GroupId(1), t, "merged")
    \/ \E r \in BagToSet(reqs) : CompileLookup(r)
    \/ \E r \in BagToSet(reqs) : CompileWrite(r)
    \/ SubmitRead(UserId(2), TaskId(1), "answer v1")
    \/ \E r \in BagToSet(reqs) : SubmitWrite(r)
    \/ \E u \in {UserId(0), UserId(1)}, t \in {TaskId(1), TaskId(2)} :
          DeleteTask(u, t)

SpecCompiledLifecycle == InitCompiledLifecycle /\ [][NextCompiledLifecycle]_vars

----------------------------------------------------------------------------
(* SpecInterleave: submit_task of a member and compile_submission of the
   leader of the same group for the same task, concurrently *)

InitInterleave ==
    /\ Quiet(GroupId(1) :> JoinedGroup, TaskId(1) :> NewTask(ClassId(1)),
             MaxWorkers)
    /\ indexes = TRUE

NextInterleave ==
    \/ \E text \in Texts : SubmitRead(UserId(2), TaskId(1), text)
    \/ \E r \in BagToSet(reqs) : SubmitWrite(r)
    \/ CompileBegin(UserId(1), GroupId(1), TaskId(1), "merged")
    \/ \E r \in BagToSet(reqs) : CompileLookup(r)
    \/ \E r \in BagToSet(reqs) : CompileWrite(r)

SpecInterleave == InitInterleave /\ [][NextInterleave]_vars

----------------------------------------------------------------------------
(* SpecOwnership: joining, whitelisting, accepting, dividing, submitting and
   compiling around group 1 of class AI101, one request at a time *)

InitOwnership ==
    /\ Quiet(GroupId(1) :> JoinedGroup, TaskId(1) :> NewTask(ClassId(1)), 1)
    /\ indexes = TRUE

NextOwnership ==
    \/ JoinClass(UserId(3), "AI101", "ai101pass")
    \/ \E r \in BagToSet(reqs) : JoinClassSave(r)
    \/ AddWhitelist(UserId(1), GroupId(1), Emails[3])
    \/ \E r \in BagToSet(reqs) : AddWhitelistSave(r)
    \/ RemoveWhitelist(UserId(1), GroupId(1), Emails[2])
    \/ \E r \in BagToSet(reqs) : RemoveWhitelistSave(r)
    \/ AcceptCheck(UserId(3), GroupId(1))
    \/ \E r \in BagToSet(reqs) : AddMemberRead(r)
    \/ \E r \in BagToSet(reqs) : AddMemberSave(r)
    \/ DivideBegin(UserId(1), GroupId(1), TaskId(1), UserId(2) :> "part A")
    \/ \E r \in BagToSet(reqs) : AddDivisionRead(r)
    \/ \E r \in BagToSet(reqs) : AddDivisionSave(r)
    \/ SubmitRead(UserId(2), TaskId(1), "answer v1")
    \/ \E r \in BagToSet(reqs) : SubmitWrite(r)
    \/ CompileBegin(UserId(1), GroupId(1), TaskId(1), "merged")
    \/ \E r \in BagToSet(reqs) : CompileLookup(r)
    \/ \E r \in BagToSet(reqs) : CompileWrite(r)

SpecOwnership == InitOwnership /\ [][NextOwnership]_vars

----------------------------------------------------------------------------
(* SpecDeleteRace: delete_task of the lecturer next to submit_task of a
   member and compile_submission of the leader for the same task *)

InitDeleteRace ==
    /\ Quiet(GroupId(1) :> JoinedGroup, TaskId(1) :> NewTask(ClassId(1)),
             MaxWorkers)
    /\ indexes = TRUE

NextDeleteRace ==
    \/ SubmitRead(UserId(2), TaskId(1), "answer v1")
    \/ \E r \in BagToSet(reqs) : SubmitWrite(r)
    \/ CompileBegin(UserId(1), GroupId(1), TaskId(1), "merged")
    \/ \E r \in BagToSet(reqs) : CompileLookup(r)
    \/ \E r \in BagToSet(reqs) : CompileWrite(r)
    \/ DeleteTask(UserId(0), TaskId(1))

SpecDeleteRace == InitDeleteRace /\ [][NextDeleteRace]_vars

----------------------------------------------------------------------------
(* SpecMembership: groups are created, then invited users accept concurrently *)

InitMembership ==
    /\ Quiet(<< >>, << >>, MaxWorkers)
    /\ indexes = TRUE

NextMembership ==
    \/ \E u \in {UserId(1), UserId(3)} :
          CreateGroupValidate(u, ClassId(1), "Alpha")
    \/ \E r \in BagToSet(reqs) : CreateGroupInsert(r)
    \/ \E g \in DOMAIN groups, e \in {Emails[2], Emails[3]} :
          AddWhitelist(groups[g].leader, g, e)
    \/ \E r \in BagToSet(reqs) : AddWhitelistSave(r)
    \/ \E u \in {UserId(2), UserId(3)}, g \in DOMAIN groups : AcceptCheck(u, g)
    \/ \E r \in BagToSet(reqs) : AddMemberRead(r)
    \/ \E r \in BagToSet(reqs) : AddMemberSave(r)

SpecMembership == InitMembership /\ [][NextMembership]_vars

----------------------------------------------------------------------------
(* SpecTaskRace: the lecturer's create_task, edit_task and delete_task
   requests, concurrently *)

InitTaskRace ==
    /\ Quiet(GroupId(1) :> JoinedGroup, TaskId(1) :> NewTask(ClassId(1)),
             MaxWorkers)
    /\ indexes = TRUE

NextTaskRace ==
    \/ \E u \in {UserId(0), UserId(1)} :
          CreateTask(u, ClassId(1), "Essay", "text", "Write an essay", None)
    \/ \E u \in {UserId(0), UserId(1)}, t \in {TaskId(1), TaskId(10)},
          p \in {<<"Essay", "text", "Write an essay", None>>,
                 <<"Lab", "file", Blank, "lab.pdf">>} :
          EditTaskRead(u, t, p[1], p[2], p[3], p[4])
    \/ \E r \in BagToSet(reqs) : EditTaskSave(r)
    \/ \E t \in {TaskId(1), TaskId(10)} : DeleteTask(UserId(0), t)

SpecTaskRace == InitTaskRace /\ [][NextTaskRace]_vars

----------------------------------------------------------------------------
(* SpecParts: the leader of group 1 divides task 1 while user 3 is invited
   and accepts, one request at a time *)

InitParts ==
    /\ Quiet(GroupId(1) :> JoinedGroup, TaskId(1) :> NewTask(ClassId(1)), 1)
    /\ indexes = TRUE

\* The forms posted: a part for user 1; parts for users 0, 2 and 3 with the
\* field of user 1 left blank.
PartForms ==
    {UserId(1) :> "part A",
     (UserId(0) :> "part C") @@ (UserId(1) :> Blank)
         @@ (UserId(2) :> "part B") @@ (UserId(3) :> "part B")}

NextParts ==
    \/ AddWhitelist(UserId(1), GroupId(1), Emails[3])
    \/ \E r \in BagToSet(reqs) : AddWhitelistSave(r)
    \/ AcceptCheck(UserId(3), GroupId(1))
    \/ \E r \in BagToSet(reqs) : AddMemberRead(r)
    \/ \E r \in BagToSet(reqs) : AddMemberSave(r)
    \/ \E u \in {UserId(1), UserId(2)}, post \in PartForms :
          DivideBegin(u, GroupId(1), TaskId(1), post)
    \/ \E r \in BagToSet(reqs) : AddDivisionRead(r)
    \/ \E r \in BagToSet(reqs) : AddDivisionSave(r)

SpecParts == InitParts /\ [][NextParts]_vars

----------------------------------------------------------------------------
(* SpecDivide: concurrent divide_task requests of two leaders *)

InitDivide ==
    /\ Quiet(TwoGroups, TwoTasks, MaxWorkers)
    /\ indexes = TRUE

\* The forms posted: a part for user 2, parts for users 1 and 2, a part
\* for user 3.
Posts == {(UserId(2) :> "part A"),
          (UserId(1) :> "part A") @@ (UserId(2) :> "part B"),
          (UserId(3) :> "part A")}

\* Each leader posts for the own group; SpecLeader has the other callers.
NextDivide ==
    \/ \E p \in {<<UserId(1), GroupId(1)>>, <<UserId(3), GroupId(2)>>},
          post \in Posts : DivideBegin(p[1], p[2], TaskId(1), post)
    \/ \E r \in BagToSet(reqs) : AddDivisionRead(r)
    \/ \E r \in BagToSet(reqs) : AddDivisionSave(r)

SpecDivide == InitDivide /\ [][NextDivide]_vars

----------------------------------------------------------------------------
(* Properties *)

\* The request r takes this step.
Stepped(r) == CopiesIn(r, reqs') < CopiesIn(r, reqs)

SubsAfter(t, m) == {s \in DOMAIN submissions' :
                       submissions'[s].task = t /\ submissions'[s].member = m}

\* C1: for every (task, member) pair at most one Submission exists in every
\* reachable state, also when two submit_task requests of the same member
\* for the same task both look for an existing submission before either
\* writes.
C1_OneSubmissionPerTaskAndMember ==
    \A s1, s2 \in DOMAIN submissions :
        (/\ submissions[s1].task = submissions[s2].task
         /\ submissions[s1].member = submissions[s2].member) => s1 = s2

\* C2: a successful Submit of a member leaves exactly one Submission for
\* (task, member) holding the text of this call; when one existed before
\* (the second of two calls in sequence) it is that same document.
C2_ResubmitUpdatesInPlace ==
    [][\A r \in BagToSet(reqs) :
          (r.op = "submit" /\ Stepped(r) /\ Succeeded(resp'.outcome)) =>
              /\ Cardinality(SubsAfter(r.task, r.user)) = 1
              /\ SubsOf(r.task, r.user) # {} =>
                     SubsAfter(r.task, r.user) = SubsOf(r.task, r.user)
              /\ \A s \in SubsAfter(r.task, r.user) :
                     submissions'[s].text_answer = r.text]_vars

\* C2 witness: the second call has updated the submission to "answer v2".
C2_Witness ==
    /\ resp.op = "submit" /\ resp.outcome = "Updated"
    /\ \E s \in DOMAIN submissions :
          /\ submissions[s].text_answer = "answer v2"
          /\ SubsOf(resp.task, resp.user) = {s}

\* C10: when the artifact generator fails during Submit or Compile the
\* failure is reported and the step writes no Submission and no
\* CompiledSubmission, so an existing one keeps its text, artifact reference
\* and timestamp; no stored record refers to an artifact that was not
\* generated.
C10_NoWriteOnGeneratorFailure ==
    /\ [](/\ \A s \in DOMAIN submissions :
                submissions[s].pdf_path # MediaUrl(NoArtifact)
          /\ \A c \in DOMAIN compiled :
                compiled[c].compiled_pdf_path # MediaUrl(NoArtifact))
    /\ [][resp'.outcome = "DependencyFailure" =>
              UNCHANGED <<submissions, compiled>>]_vars

\* C10 witness: the generator failed on a resubmission and the submission
\* stored before is still there.
C10_Witness ==
    /\ resp.op = "submit" /\ resp.outcome = "DependencyFailure"
    /\ SubsOf(resp.task, resp.user) # {}

CompiledAfter(t, g) == {c \in DOMAIN compiled' :
                           compiled'[c].task = t /\ compiled'[c].group = g}

\* C11: a successful compile_submission of the leader leaves exactly one
\* compiled submission for (task, group), holding the artifact reference of
\* this call; when one existed before (the second of two calls in sequence)
\* it is that same document, so nothing of the earlier call is retained.
C11_RecompileOverwrites ==
    [][\A r \in BagToSet(reqs) :
          (/\ r.op = "compile" /\ r.pc = "write" /\ Stepped(r)
           /\ Succeeded(resp'.outcome)) =>
              /\ Cardinality(CompiledAfter(r.task, r.group)) = 1
              /\ CompiledOf(r.task, r.group) # {} =>
                     CompiledAfter(r.task, r.group) = CompiledOf(r.task, r.group)
              /\ \A c \in CompiledAfter(r.task, r.group) :
                     compiled'[c].compiled_pdf_path = r.url]_vars

\* C11 witness: a second compile stored the reference to b.pdf in the
\* document the first compile created.
C11_Witness ==
    /\ resp.op = "compile" /\ resp.outcome = "Updated"
    /\ \E c \in DOMAIN compiled :
          /\ CompiledOf(resp.task, resp.group) = {c}
          /\ compiled[c].compiled_pdf_path = MediaUrl("b.pdf")

\* C12: for every (task, group) pair at most one compiled submission exists
\* in every reachable state, also when two compile_submission requests for
\* the pair both look for the existing document before either writes.
C12_OneCompiledPerTaskAndGroup ==
    \A c1, c2 \in DOMAIN compiled :
        (/\ compiled[c1].task = compiled[c2].task
         /\ compiled[c1].group = compiled[c2].group) => c1 = c2

\* C13: class names are pairwise distinct in every reachable state, and
\* create_class by a lecturer, with a valid form and a name that an existing
\* class has, ends in DuplicateName and leaves every class (owner,
\* credential, member set) as it was, with no second class of that name.
C13_DuplicateClassName ==
    /\ [](\A c1, c2 \in DOMAIN classes :
             classes[c1].name = classes[c2].name => c1 = c2)
    /\ [][(/\ resp'.op = "create_class"
           /\ resp'.outcome \notin {"Unauthorized", "ValidationError"}
           /\ ClassesNamed(resp'.name) # {}) =>
              (resp'.outcome = "DuplicateName" /\ UNCHANGED classes)]_vars

\* C14: account emails are pairwise distinct in every reachable state; a
\* registration with an email an account already holds ends in DuplicateName
\* and creates nothing; and a registration that passed the email pre-check
\* (alone or together with another for the same email) either creates the
\* one account of that email or ends in DuplicateName and creates nothing.
C14_DuplicateEmail ==
    /\ [](\A u1, u2 \in DOMAIN users :
             users[u1].email = users[u2].email => u1 = u2)
    /\ [][(/\ resp'.op = "register"
           /\ resp'.outcome \notin {"Redirected", "ValidationError"}
           /\ UsersWithEmail(resp'.name) # {}) =>
              (resp'.outcome = "DuplicateName" /\ UNCHANGED users)]_vars
    /\ [][\A r \in BagToSet(reqs) :
             (r.op = "register" /\ Stepped(r)) =>
                 \/ /\ resp'.outcome = "ok"
                    /\ UsersWithEmail(r.email) = {}
                    /\ Cardinality({u \in DOMAIN users' :
                                       users'[u].email = r.email}) = 1
                 \/ /\ resp'.outcome = "DuplicateName"
                    /\ UNCHANGED users]_vars

\* C15: accept_group_invitation reports the first precondition that fails,
\* in this order: the group does not exist (NotFound), the caller's email is
\* not in the whitelist (NotWhitelisted), the caller is a member already
\* (AlreadyMember); each of the three leaves the groups (member set and
\* whitelist) unchanged, and only when all pass is the caller appended to the
\* member set.
C15_AcceptChecksInOrder ==
    [][resp'.op = "accept" =>
         IF resp'.group \notin DOMAIN groups
         THEN resp'.outcome = "NotFound" /\ UNCHANGED groups
         ELSE IF ~Contains(groups[resp'.group].whitelist_emails,
                           users[resp'.user].email)
         THEN resp'.outcome = "NotWhitelisted" /\ UNCHANGED groups
         ELSE IF Contains(groups[resp'.group].members, resp'.user)
         THEN resp'.outcome = "AlreadyMember" /\ UNCHANGED groups
         ELSE /\ resp'.outcome = "ok"
              /\ groups' = [groups EXCEPT ![resp'.group].members =
                                              Append(@, resp'.user)]]_vars

\* C15 witness: a member whose email was removed from the whitelist called
\* again: two preconditions fail and the earlier one is reported.
C15_Witness ==
    /\ resp.op = "accept" /\ resp.outcome = "NotWhitelisted"
    /\ resp.group \in DOMAIN groups
    /\ Contains(groups[resp.group].members, resp.user)

\* C16: a successful create_group by account a in class c adds one group
\* whose class is c, whose leader is a, whose member list is exactly <<a>>
\* and whose whitelist is empty, and changes no other group.
C16_CreatorIsLeaderAndSoleMember ==
    [][(resp'.op = "create_group" /\ resp'.outcome = "ok") =>
          /\ resp'.group \notin DOMAIN groups
          /\ DOMAIN groups' = DOMAIN groups \cup {resp'.group}
          /\ \A g \in DOMAIN groups : groups'[g] = groups[g]
          /\ groups'[resp'.group].class_obj = resp'.class
          /\ groups'[resp'.group].name = resp'.name
          /\ groups'[resp'.group].leader = resp'.user
          /\ groups'[resp'.group].members = <<resp'.user>>
          /\ groups'[resp'.group].whitelist_emails = <<>>]_vars

\* C16 witness: a group was created.
C16_Witness ==
    /\ resp.op = "create_group" /\ resp.outcome = "ok"
    /\ resp.group \in DOMAIN groups
    /\ groups[resp.group].members = <<resp.user>>

\* C17: after a successful create_group by an account whose role was the
\* registrant role (member), the account's role is leader.
C17_CreatorIsPromoted ==
    (resp.op = "create_group" /\ resp.outcome = "ok") =>
        users[resp.user].role = ROLE_LEADER

\* C18: create_group by an account that is not in the member list of the
\* class it names fails and creates no group, at the validation and at the
\* insert of the request alike.
C18_CreatorMustHaveJoinedClass ==
    [][(/\ resp'.op = "create_group"
        /\ ~(/\ resp'.class \in DOMAIN classes
             /\ Contains(classes[resp'.class].members, resp'.user))) =>
           (~Succeeded(resp'.outcome) /\ UNCHANGED groups)]_vars

\* C18 witness: an account was refused a group, with a name no group has,
\* in a class it has not joined.
C18_Witness ==
    /\ resp.op = "create_group" /\ resp.outcome = "ValidationError"
    /\ resp.name # Blank /\ resp.class \in DOMAIN classes
    /\ ~Contains(classes[resp.class].members, resp.user)
    /\ GroupsNamed(resp.class, resp.name) = {}

\* C19: join_class_view with a class name no class has ends in NotFound,
\* with a wrong password in InvalidCredential, both leaving every class's
\* member list unchanged; with the right password it succeeds, and then the
\* account is in the member list of that class exactly once, whether or not
\* it was a member before, and every other membership is as it was.
C19_JoinClassOutcomes ==
    [][(resp'.op = "join_class" /\ resp'.outcome # "ValidationError") =>
         IF ClassesNamed(resp'.name) = {}
         THEN resp'.outcome = "NotFound" /\ UNCHANGED classes
         ELSE IF \A c \in ClassesNamed(resp'.name) :
                    classes[c].password_hash # HashPw(resp'.password)
         THEN resp'.outcome = "InvalidCredential" /\ UNCHANGED classes
         ELSE /\ resp'.outcome = "ok"
              /\ DOMAIN classes' = DOMAIN classes
              /\ \A c \in DOMAIN classes :
                    IF classes[c].name = resp'.name
                    THEN /\ Len(SelectSeq(classes'[c].members,
                                          LAMBDA m : m = resp'.user)) = 1
                         /\ SeqToSet(classes'[c].members) =
                                SeqToSet(classes[c].members) \cup {resp'.user}
                         /\ NoDuplicates(classes'[c].members)
                    ELSE classes'[c] = classes[c]]_vars

\* C19 witness: an account that was a member of the class joined it again
\* and is told it joined.
C19_Witness ==
    /\ resp.op = "join_class" /\ resp.outcome = "ok"
    /\ resp.user = UserId(2) /\ resp.class = ClassId(1)
    /\ classes[ClassId(1)].members = <<UserId(1), UserId(2)>>

\* C20: submit_task on a task that does not exist ends in NotFound, and by
\* an account that is in no group of the task's class it fails (NotInGroup);
\* both create and change no submission.
C20_SubmitNeedsGroupOfTaskClass ==
    [][resp'.op = "submit" =>
         IF resp'.task \notin DOMAIN tasks
         THEN resp'.outcome = "NotFound" /\ UNCHANGED submissions
         ELSE (~\E g \in DOMAIN groups :
                   /\ Contains(groups[g].members, resp'.user)
                   /\ groups[g].class_obj = tasks[resp'.task].class_obj) =>
                 (resp'.outcome = "NotInGroup" /\ UNCHANGED submissions)]_vars

\* C20 witness: the leader of a group of another class was refused, while
\* the task has a submission of a member of its own class.
C20_Witness ==
    /\ resp.op = "submit" /\ resp.outcome = "NotInGroup"
    /\ resp.user = UserId(3) /\ resp.task = TaskId(1)
    /\ Contains(groups[GroupId(2)].members, UserId(3))
    /\ SubsOf(TaskId(1), UserId(2)) # {}

\* C21: a successful resubmission for a (task, member) pair that already has
\* a Submission refreshes its timestamp: submitted_at of that document after
\* the step is later than the value stored before it.
C21_ResubmitRefreshesTimestamp ==
    [][\A r \in BagToSet(reqs) :
          (/\ r.op = "submit" /\ Stepped(r) /\ Succeeded(resp'.outcome)
           /\ SubsOf(r.task, r.user) # {}) =>
              \A s \in SubsOf(r.task, r.user) :
                  /\ s \in DOMAIN submissions'
                  /\ submissions'[s].submitted_at > submissions[s].submitted_at]_vars

\* C22: a successful compile for a (task, group) pair that already has a
\* compiled submission overwrites its artifact reference and its timestamp:
\* compiled_at of that document after the step is later than the value
\* stored before it.
C22_RecompileRefreshesTimestamp ==
    [][\A r \in BagToSet(reqs) :
          (/\ r.op = "compile" /\ r.pc = "write" /\ Stepped(r)
           /\ Succeeded(resp'.outcome)
           /\ CompiledOf(r.task, r.group) # {}) =>
              \A c \in CompiledOf(r.task, r.group) :
                  /\ c \in DOMAIN compiled'
                  /\ compiled'[c].compiled_pdf_path = r.url
                  /\ compiled'[c].compiled_at > compiled[c].compiled_at]_vars

\* C23: compile_submission of the group's leader for an existing task never
\* depends on submissions: the only ways it ends without success are blank
\* text and a failed generator, and once the artifact is generated the call
\* succeeds and a compiled submission for (task, group) holds its reference,
\* also when no member has submitted.
C23_CompileNeedsNoSubmission ==
    /\ [][(/\ resp'.op = "compile"
           /\ resp'.group \in DOMAIN groups
           /\ groups[resp'.group].leader = resp'.user
           /\ resp'.task \in DOMAIN tasks) =>
              \/ Succeeded(resp'.outcome)
              \/ resp'.outcome \in {"ValidationError", "DependencyFailure"}]_vars
    /\ [][\A r \in BagToSet(reqs) :
             (r.op = "compile" /\ r.pc = "write" /\ Stepped(r)) =>
                 /\ Succeeded(resp'.outcome)
                 /\ \E c \in CompiledAfter(r.task, r.group) :
                        compiled'[c].compiled_pdf_path = r.url]_vars

\* C23 witness: the leader's compile has created the compiled submission
\* while the group has no submission for the task.
C23_Witness ==
    /\ resp.op = "compile" /\ resp.outcome = "Created"
    /\ CompiledOf(resp.task, resp.group) # {}
    /\ GroupSubs(resp.task, resp.group) = {}

\* C24: add_whitelist of an email the whitelist holds and remove_whitelist
\* of an email it does not hold both answer with success and leave the
\* whitelist as it was, and no whitelist ever holds an email twice.
C24_WhitelistIsIdempotent ==
    /\ [](\A g \in DOMAIN groups :
             \A i, j \in DOMAIN groups[g].whitelist_emails :
                 groups[g].whitelist_emails[i] = groups[g].whitelist_emails[j]
                     => i = j)
    /\ [][(/\ resp'.op \in {"add_whitelist", "remove_whitelist"}
           /\ resp'.name # Blank
           /\ resp'.group \in DOMAIN groups
           /\ groups[resp'.group].leader = resp'.user
           /\ (resp'.op = "add_whitelist") <=>
                  Contains(groups[resp'.group].whitelist_emails, resp'.name)) =>
              /\ resp'.outcome = "ok"
              /\ groups'[resp'.group].whitelist_emails =
                     groups[resp'.group].whitelist_emails]_vars

\* C24 witness: the leader removed an email that was never whitelisted from
\* a whitelist that holds another one, and was told it succeeded.
C24_Witness ==
    /\ resp.op = "remove_whitelist" /\ resp.outcome = "ok"
    /\ resp.name \notin whitelisted[resp.group]
    /\ groups[resp.group].whitelist_emails # << >>

\* C25: concurrent whitelist mutations of one group lose no update: the
\* step that completes add_whitelist or remove_whitelist of an email changes
\* the presence of that email only, so every other email added meanwhile
\* stays in the whitelist and every other email removed meanwhile stays out.
C25_NoWhitelistUpdateLost ==
    [][\A r \in BagToSet(reqs) :
          (r.op \in {"add_whitelist", "remove_whitelist"} /\ Stepped(r)) =>
              /\ Contains(groups'[r.group].whitelist_emails, r.email)
                     <=> (r.op = "add_whitelist")
              /\ \A e \in SeqToSet(groups[r.group].whitelist_emails)
                          \cup SeqToSet(groups'[r.group].whitelist_emails) :
                     e # r.email =>
                         (Contains(groups'[r.group].whitelist_emails, e)
                              <=> Contains(groups[r.group].whitelist_emails, e))]_vars

\* C26: a read of the submissions of group g is gated by ownership: a
\* logged-in caller who is neither the leader nor a member of g, nor the
\* lecturer who owns the task polled, is answered Unauthorized by
\* group_detail and by poll_submissions, and so is never handed the
\* submissions stored for (t, g).
C26_ReadsAreGatedByOwnership ==
    [][(/\ \/ resp'.op = "group_detail"
           \/ /\ resp'.op = "poll_submissions"
              /\ PollResult(resp'.task, resp'.group) # {}
        /\ resp'.group \in DOMAIN groups
        /\ groups[resp'.group].leader # resp'.user
        /\ ~Contains(groups[resp'.group].members, resp'.user)
        /\ ~(/\ resp'.task \in DOMAIN tasks
             /\ tasks[resp'.task].lecturer = resp'.user)) =>
           resp'.outcome = "Unauthorized"]_vars

\* C27: in every reachable state every task has exactly one of description
\* and file_path set, and an edit leaves set the one that goes with the type
\* posted (text: the description, file: the file reference).  A field counts
\* as set when it is not None.
C27_ExactlyOnePayload ==
    /\ [](\A t \in DOMAIN tasks :
             (tasks[t].description # None) <=> (tasks[t].file_path = None))
    /\ [][\A r \in BagToSet(reqs) :
             (r.op = "edit_task" /\ Stepped(r) /\ resp'.outcome = "ok") =>
                 /\ r.task_type = "text" => tasks'[r.task].description # None
                 /\ r.task_type = "file" => tasks'[r.task].file_path # None]_vars

\* C28: a registration with a valid form and an email no account holds
\* creates exactly one account with that email, and its role is the generic
\* one: neither lecturer nor leader.
C28_RegisterCreatesRegistrant ==
    [][\A r \in BagToSet(reqs) :
          (r.op = "register" /\ Stepped(r) /\ UsersWithEmail(r.email) = {}) =>
              /\ resp'.outcome = "ok"
              /\ Cardinality({u \in DOMAIN users' \ DOMAIN users :
                                 users'[u].email = r.email}) = 1
              /\ \A u \in DOMAIN users' :
                     users'[u].email = r.email =>
                         users'[u].role \notin {ROLE_LECTURER, ROLE_LEADER}]_vars

\* C29: in every step an account keeps its role, unless the account is a
\* registrant (member) that becomes leader in the step that answers its own
\* successful create_group; so no step makes an account a lecturer or takes
\* the lecturer role away, no leader goes back to registrant, and no step
\* adds an account that is a lecturer.
C29_RoleTransitions ==
    [][/\ \A u \in DOMAIN users :
             /\ u \in DOMAIN users'
             /\ users'[u].role # users[u].role =>
                    /\ users[u].role = ROLE_MEMBER
                    /\ users'[u].role = ROLE_LEADER
                    /\ resp'.op = "create_group"
                    /\ resp'.user = u
                    /\ resp'.outcome = "ok"
       /\ \A u \in DOMAIN users' \ DOMAIN users :
             users'[u].role # ROLE_LECTURER]_vars

\* C29 witness: a registrant has created a group next to the lecturer and
\* the leader the database started with, and every account has the role it
\* started with.
C29_Witness ==
    /\ resp.op = "create_group" /\ resp.outcome = "ok"
    /\ resp.group \in DOMAIN groups
    /\ SeededUsers[resp.user].role = ROLE_MEMBER
    /\ \A u \in DOMAIN SeededUsers :
          u \in DOMAIN users /\ users[u].role = SeededUsers[u].role

\* C30 as stated: a submission that exists exists in every later state, for
\* the same task and member and with status 'submitted'; no step removes it,
\* and a further submit of its member for its task is not refused.
C30_SubmissionNeverRemoved ==
    [][/\ \A s \in DOMAIN submissions :
             /\ s \in DOMAIN submissions'
             /\ submissions'[s].task = submissions[s].task
             /\ submissions'[s].member = submissions[s].member
             /\ submissions'[s].status = "submitted"
       /\ \A r \in BagToSet(reqs) :
             (r.op = "submit" /\ Stepped(r) /\ SubsOf(r.task, r.user) # {}) =>
                 resp'.outcome \in {"Updated", "DependencyFailure"}]_vars

\* C30 amended: a submission stays, for the same task and member and with
\* status 'submitted', through every step but the delete_task of its own task
\* by the lecturer who owns that task, which removes it with the task; while
\* it exists a further submit of its member for its task is not refused.
C30_SubmissionLivesWithItsTask ==
    /\ [](\A s \in DOMAIN submissions :
             /\ submissions[s].status = "submitted"
             /\ submissions[s].task \in DOMAIN tasks)
    /\ [][/\ \A s \in DOMAIN submissions :
                \/ /\ s \in DOMAIN submissions'
                   /\ submissions'[s].task = submissions[s].task
                   /\ submissions'[s].member = submissions[s].member
                \/ /\ resp'.op = "delete_task" /\ resp'.outcome = "ok"
                   /\ resp'.task = submissions[s].task
                   /\ tasks[resp'.task].lecturer = resp'.user
                   /\ resp'.task \notin DOMAIN tasks'
          /\ \A r \in BagToSet(reqs) :
                (r.op = "submit" /\ Stepped(r) /\ SubsOf(r.task, r.user) # {}) =>
                    resp'.outcome \in {"Updated", "DependencyFailure"}]_vars

\* C30 witness: two submissions were made, the lecturer deleted the task of
\* one of them, and the submission for the other task is still stored.
C30_Witness ==
    /\ resp.op = "delete_task" /\ resp.outcome = "ok"
    /\ clock = 12
    /\ Cardinality(DOMAIN submissions) = 1
    /\ \A s \in DOMAIN submissions : submissions[s].task # resp.task

\* The step is the write of a compile_submission of the leader of a group,
\* and it touches the compiled submissions of that task and group only.
CompileStepOfLeader ==
    \E r \in BagToSet(reqs) :
        /\ r.op = "compile" /\ r.pc = "write" /\ Stepped(r)
        /\ r.group \in DOMAIN groups /\ groups[r.group].leader = r.user
        /\ \A c \in DOMAIN compiled \cup DOMAIN compiled' :
              \/ /\ c \in DOMAIN compiled /\ c \in DOMAIN compiled'
                 /\ compiled'[c] = compiled[c]
              \/ /\ c \in DOMAIN compiled'
                 /\ compiled'[c].task = r.task /\ compiled'[c].group = r.group

\* C31 as stated: every step that changes the compiled submissions is the
\* compile of the leader of the group concerned, and a (task, group) pair
\* that has a compiled submission has one in every later state.
C31_CompiledOnlyByLeaderCompile ==
    [][/\ compiled' # compiled => CompileStepOfLeader
       /\ \A c \in DOMAIN compiled :
             CompiledAfter(compiled[c].task, compiled[c].group) # {}]_vars

\* C31 amended: every step that changes the compiled submissions is the
\* compile of the leader of the group concerned or the delete_task of the
\* lecturer who owns the task, which removes the compiled submissions of
\* that task and no other; a pair that has a compiled submission keeps one
\* for as long as its task exists.
C31_CompiledByLeaderUntilTaskDeleted ==
    [][/\ compiled' # compiled =>
             \/ CompileStepOfLeader
             \/ /\ resp'.op = "delete_task" /\ resp'.outcome = "ok"
                /\ tasks[resp'.task].lecturer = resp'.user
                /\ \A c \in DOMAIN compiled :
                      IF compiled[c].task = resp'.task
                      THEN c \notin DOMAIN compiled'
                      ELSE c \in DOMAIN compiled' /\ compiled'[c] = compiled[c]
                /\ DOMAIN compiled' \subseteq DOMAIN compiled
       /\ \A c \in DOMAIN compiled :
             compiled[c].task \in DOMAIN tasks' =>
                 CompiledAfter(compiled[c].task, compiled[c].group) # {}]_vars

\* C31 witness: two pairs were compiled, the lecturer deleted the task of
\* one, and the compiled submission of the other pair is still stored.
C31_Witness ==
    /\ resp.op = "delete_task" /\ resp.outcome = "ok"
    /\ clock = 12
    /\ Cardinality(DOMAIN compiled) = 1
    /\ \A c \in DOMAIN compiled : compiled[c].task # resp.task

\* C32: no step of compile_submission changes a submission and no step of
\* submit_task changes a compiled submission, and the artifact reference a
\* successful compile stores is the one generated from the posted text when
\* the call began, whatever submit_task did in between.
C32_CompileAndSubmitAreIndependent ==
    [][\A r \in BagToSet(reqs) :
          /\ (r.op = "compile" /\ Stepped(r)) =>
                 /\ UNCHANGED submissions
                 /\ (r.pc = "write" /\ Succeeded(resp'.outcome)) =>
                        \E c \in CompiledAfter(r.task, r.group) :
                            /\ compiled'[c].compiled_pdf_path = r.url
                            /\ c \in DOMAIN compiled =>
                                   c = r.existing
          /\ (r.op = "submit" /\ Stepped(r)) => UNCHANGED compiled]_vars

\* C32 witness: the leader's compile has stored its artifact between the
\* read and the write of a member's submit_task, next to the submission the
\* member made before.
C32_Witness ==
    /\ resp.op = "compile" /\ Succeeded(resp.outcome)
    /\ CompiledOf(resp.task, resp.group) # {}
    /\ GroupSubs(resp.task, resp.group) # {}
    /\ \E r \in BagToSet(reqs) : r.op = "submit" /\ r.task = resp.task

\* C33: no step changes the lecturer of a class that exists, nor the class
\* or the leader of a group that exists: joining, whitelisting, accepting,
\* dividing, submitting and compiling leave all three as they were.
C33_OwnershipIsImmutable ==
    [][/\ \A c \in DOMAIN classes :
             /\ c \in DOMAIN classes'
             /\ classes'[c].lecturer = classes[c].lecturer
       /\ \A g \in DOMAIN groups :
             /\ g \in DOMAIN groups'
             /\ groups'[g].class_obj = groups[g].class_obj
             /\ groups'[g].leader = groups[g].leader]_vars

\* C33 witness: user 3 has joined the class and the group, the whitelist
\* was changed, a part was assigned, a submission and a compiled submission
\* were stored, and class and group have the owners they started with.
C33_Witness ==
    /\ Contains(classes[ClassId(1)].members, UserId(3))
    /\ Contains(groups[GroupId(1)].members, UserId(3))
    /\ ~Contains(groups[GroupId(1)].whitelist_emails, Emails[2])
    /\ tasks[TaskId(1)].divisions # << >>
    /\ submissions # << >> /\ compiled # << >>
    /\ classes[ClassId(1)].lecturer = UserId(0)
    /\ groups[GroupId(1)].leader = UserId(1)
    /\ groups[GroupId(1)].class_obj = ClassId(1)

\* C34: no step of accept_group_invitation changes a whitelist, so the
\* email of the account that accepts is on the whitelist after the step as
\* it was before, and no step of remove_whitelist changes a member set, so
\* a member stays a member when its email is taken off the whitelist.
C34_AcceptAndRemoveAreFramed ==
    [][\A r \in BagToSet(reqs) :
          /\ (r.op = "accept" /\ Stepped(r)) =>
                 groups'[r.group].whitelist_emails =
                     groups[r.group].whitelist_emails
          /\ (r.op = "remove_whitelist" /\ Stepped(r)) =>
                 /\ groups'[r.group].members = groups[r.group].members
                 /\ \A u \in DOMAIN users :
                        (EmailOf(u) = r.email
                         /\ Contains(groups[r.group].members, u)) =>
                            Contains(groups'[r.group].members, u)]_vars

\* C34 witness: an account accepted its invitation, its email was then
\* removed from the whitelist, and it is still a member.
C34_Witness ==
    /\ resp.op = "remove_whitelist" /\ resp.outcome = "ok"
    /\ ~Contains(groups[resp.group].whitelist_emails, resp.name)
    /\ \E u \in DOMAIN users :
          /\ EmailOf(u) = resp.name
          /\ <<resp.group, u>> \in accepted
          /\ Contains(groups[resp.group].members, u)

\* C35: in every reachable state the task of every submission and of every
\* compiled submission exists, also when the lecturer deletes the task
\* between the read and the write of a submit_task or compile_submission.
C35_NoDanglingTaskReference ==
    /\ \A s \in DOMAIN submissions : submissions[s].task \in DOMAIN tasks
    /\ \A c \in DOMAIN compiled : compiled[c].task \in DOMAIN tasks

\* C37: in every reachable state the leader of each group is one of the
\* group's members: create_group stores the leader as the first member and
\* no interleaving of accept_group_invitation writes takes the leader out.
C37_LeaderIsMember ==
    \A g \in DOMAIN groups : Contains(groups[g].members, groups[g].leader)

\* C37 witness: a group made by create_group has taken in an invited user.
C37_Witness ==
    \E g \in DOMAIN groups : \E u \in DOMAIN users :
        /\ <<g, u>> \in accepted
        /\ u # groups[g].leader
        /\ Contains(groups[g].members, u)
        /\ resp.op = "accept" /\ resp.outcome = "ok"

\* C38: in every reachable state the lecturer of each task is the lecturer
\* of the task's class: only the owner of a class creates a task in it, and
\* edit_task leaves the class and the lecturer of the task as they were.
C38_TaskLecturerOwnsClass ==
    \A t \in DOMAIN tasks :
        /\ tasks[t].class_obj \in DOMAIN classes
        /\ tasks[t].lecturer = classes[tasks[t].class_obj].lecturer

\* C3: for every (class, group name) pair at most one Group exists, and
\* every create_group request ends in success, in the form's error or in
\* DuplicateName: the request that loses a race of two with the same
\* (class, name) gets the DuplicateName outcome of the pre-check.
C3_RaceEndsInDuplicateName ==
    /\ \A g1, g2 \in DOMAIN groups :
          (/\ groups[g1].class_obj = groups[g2].class_obj
           /\ groups[g1].name = groups[g2].name) => g1 = g2
    /\ resp.op = "create_group" =>
          resp.outcome \in {"ok", "DuplicateName", "ValidationError"}

\* C4: concurrent accept_group_invitation requests lose no update: every
\* account that was told it joined a group is in the group's member set.
C4_NoAcceptedMemberLost ==
    \A p \in accepted : Contains(groups[p[1]].members, p[2])

\* C5: accept_group_invitation is idempotent: no member set holds an
\* account twice, and a call by a whitelisted account whose earlier call
\* for the group succeeded ends in AlreadyMember and changes no group.
C5_AcceptIsIdempotent ==
    /\ [](\A g \in DOMAIN groups : NoDuplicates(groups[g].members))
    /\ [][(/\ resp'.op = "accept"
           /\ <<resp'.group, resp'.user>> \in accepted
           /\ IsWhitelisted(resp'.user, resp'.group)) =>
              (resp'.outcome = "AlreadyMember" /\ UNCHANGED groups)]_vars

\* C5 witness: the second call of an account that joined was answered.
C5_Witness ==
    /\ resp.op = "accept" /\ resp.outcome = "AlreadyMember"
    /\ <<resp.group, resp.user>> \in accepted
    /\ Len(groups[resp.group].members) = 2

\* C6: every account in a group's member set is the group's leader or an
\* account whose email was in the group's whitelist at some earlier point.
C6_MembersWereWhitelisted ==
    \A g \in DOMAIN groups : \A m \in SeqToSet(groups[g].members) :
        m = groups[g].leader \/ EmailOf(m) \in whitelisted[g]

\* C6 witness: an account joined and its whitelist entry was removed since.
C6_Witness ==
    \E g \in DOMAIN groups : \E m \in SeqToSet(groups[g].members) :
        /\ m # groups[g].leader
        /\ ~Contains(groups[g].whitelist_emails, EmailOf(m))

LeaderOps == {"compile", "add_whitelist", "divide"}

\* The group does not exist or another account leads it.
NotLeaderOf(u, g) == g \notin DOMAIN groups \/ groups[g].leader # u

\* C7: a caller who is not the leader of group g, whether or not g or the
\* task exists, gets Unauthorized from compile_submission, add_whitelist and
\* divide_task, in a step that leaves the groups (the whitelist), the tasks
\* (the divisions) and the compiled submissions unchanged; no request of
\* such a caller gets past the check.
C7_NonLeaderIsUnauthorized ==
    /\ [](\A r \in BagToSet(reqs) :
             r.op \in LeaderOps => ~NotLeaderOf(r.user, r.group))
    /\ [][(resp'.op \in LeaderOps /\ NotLeaderOf(resp'.user, resp'.group)) =>
              /\ resp'.outcome = "Unauthorized"
              /\ UNCHANGED <<groups, tasks, compiled>>]_vars

\* C7 witness: a member who is not the leader was refused divide_task on a
\* task that has divisions.
C7_Witness ==
    /\ resp.op = "divide" /\ resp.outcome = "Unauthorized"
    /\ resp.user = UserId(2) /\ resp.group = GroupId(1)
    /\ resp.task = TaskId(1) /\ tasks[TaskId(1)].divisions # <<>>

\* C8: divide_task succeeds only when the calling leader's group belongs to
\* the class of the task: every step that changes a task is taken by a
\* divide_task request whose group is of the task's class.
C8_DivideOnlyWithinClass ==
    [][tasks' # tasks =>
         \E r \in BagToSet(reqs) :
             /\ r.op = "divide" /\ Stepped(r)
             /\ groups[r.group].class_obj = tasks[r.task].class_obj]_vars

DivisionsOf(divisions, m) == SelectSeq(divisions, LAMBDA d : d.member_id = m)

\* C9: each task holds at most one division per member; an assignment
\* (task, m, d) that no other write to the task overlaps leaves the single
\* division of m with description d and the divisions of all other members
\* as they were.
C9_OneDivisionPerMember ==
    /\ [](\A t \in DOMAIN tasks : \A m \in DOMAIN users :
             Len(DivisionsOf(tasks[t].divisions, m)) <= 1)
    /\ [][\A r \in BagToSet(reqs) :
             (/\ r.op = "divide" /\ r.pc = "save" /\ Stepped(r)
              /\ tasks[r.task].divisions = r.divisions) =>
                 \A m \in DOMAIN users :
                     DivisionsOf(tasks'[r.task].divisions, m) =
                         IF m = Head(r.todo).member_id
                         THEN <<Head(r.todo)>>
                         ELSE DivisionsOf(tasks[r.task].divisions, m)]_vars

\* C9 witness: an assignment is about to replace the member's division by
\* another description while another member has a division too.
C9_Witness ==
    \E r \in BagToSet(reqs) :
        /\ r.op = "divide" /\ r.pc = "save"
        /\ tasks[r.task].divisions = r.divisions
        /\ Len(r.divisions) = 2
        /\ \E d \in SeqToSet(r.divisions) :
              /\ d.member_id = Head(r.todo).member_id
              /\ d.part_description # Head(r.todo).part_description

\* C36: concurrent divide_task requests on one task for different members
\* lose no update: the save of an assignment for one member leaves the
\* division every other member holds on the task in place, so that after
\* both requests complete the task holds the division of each.
C36_NoDivisionLost ==
    [][\A r \in BagToSet(reqs) :
         (r.op = "divide" /\ r.pc = "save" /\ Stepped(r)) =>
             \A m \in DOMAIN users :
                 m # Head(r.todo).member_id =>
                     DivisionsOf(tasks'[r.task].divisions, m) =
                         DivisionsOf(tasks[r.task].divisions, m)]_vars

\* C39: every division that divide_task writes is for a member of the
\* group whose leader posted the form, with the non-blank part the form
\* holds for that member; the write leaves the division of every account
\* whose part is blank or missing in the form as it was.
C39_DivisionsOnlyForOwnMembers ==
    [][\A r \in BagToSet(reqs) :
         (r.op = "divide" /\ r.pc = "save" /\ Stepped(r)) =>
             LET d == Head(r.todo)
             IN  /\ r.user = groups[r.group].leader
                 /\ Contains(groups[r.group].members, d.member_id)
                 /\ d.part_description # Blank
                 /\ d.member_id \in DOMAIN r.post
                 /\ d.part_description = r.post[d.member_id]
                 /\ DivisionsOf(tasks'[r.task].divisions, d.member_id) = <<d>>
                 /\ \A m \in DOMAIN users :
                        (m \notin DOMAIN r.post \/ r.post[m] = Blank
                         \/ ~Contains(groups[r.group].members, m)) =>
                            DivisionsOf(tasks'[r.task].divisions, m) =
                                DivisionsOf(tasks[r.task].divisions, m)]_vars

\* C39 witness: a form with a part for an account outside the group and a
\* blank part for a member that has a division is being processed; the
\* part of one member is written already and the next one is pending.
C39_Witness ==
    \E r \in BagToSet(reqs) :
        /\ r.op = "divide" /\ r.todo # <<>>
        /\ \E m \in DOMAIN r.post :
              /\ r.post[m] # Blank
              /\ Contains(groups[r.group].members, m)
              /\ [member_id |-> m, part_description |-> r.post[m]]
                     \in SeqToSet(tasks[r.task].divisions)
              /\ m # Head(r.todo).member_id
        /\ \E m \in DOMAIN r.post :
              /\ r.post[m] = Blank
              /\ Contains(groups[r.group].members, m)
              /\ DivisionsOf(tasks[r.task].divisions, m) # <<>>
        /\ \E o \in DOMAIN r.post :
              /\ r.post[o] # Blank
              /\ ~Contains(groups[r.group].members, o)
              /\ DivisionsOf(tasks[r.task].divisions, o) = <<>>

====
